---- MODULE Spec2Model ----
(***************************************************************************)
(* A model of the exam-kit pipeline: citation manager, citation labels,    *)
(* chunk splitting, exam parsing, topic mapping / coverage, retrieval,     *)
(* Markdown rendering and the build pipeline that composes them.           *)
(*                                                                         *)
(* Conventions.  A Python dict is a function whose DOMAIN is its key set,  *)
(* so d.get(k, default) is Get(d, k, default).  A Python str that the code *)
(* only compares, joins or interpolates is a TLA+ string; a str the code   *)
(* measures or splits is a sequence of one-character strings.  A value     *)
(* that may be None is a sequence: <<>> for None and <<v>> for v.          *)
(***************************************************************************)
EXTENDS Integers, Sequences, FiniteSets, TLC

VARIABLES
    citations,          \* CitationManager.citations
    citation_counter,   \* CitationManager.citation_counter
    mgr_ret,            \* what the last CitationManager call did and returned
    fmt_in,             \* the chunk handed to format_citation
    fmt_out,            \* the label format_citation returned, None before the call
    split_in,           \* split_into_chunks' arguments: segments, max_chunk_size
    split_out,          \* the list split_into_chunks returned, None before the call
    exam_text,          \* the text handed to parse_exam_structure
    exam_out,           \* the questions parse_exam_structure returned, None before
    map_in,             \* map_chunks_to_topics' arguments
    map_out,            \* the mapping map_chunks_to_topics returned, None before
    cov_in,             \* calculate_coverage's arguments
    cov_out,            \* the list calculate_coverage returned, None before
    render_in,          \* render_markdown_document's arguments
    render_out,         \* the document render_markdown_document returned, None before
    build_pc,           \* where build_pipeline stands
    build_env,          \* what build_pipeline finds: cache files, topics file, config
    build_chunks,       \* build_pipeline's chunks
    build_topics,       \* build_pipeline's topics
    build_mapping,      \* build_pipeline's topic_mapping
    build_coverage,     \* build_pipeline's coverage_data
    build_idx,          \* the number of topics the loop of build_pipeline has taken
    build_context,      \* build_pipeline's context_chunks
    build_sections,     \* build_pipeline's sections
    build_log,          \* the LLM calls logged as failed, section by section
    build_files,        \* the files build_pipeline has written, with their contents
    build_result,       \* what build_pipeline returned or raised, None before
    call_in,            \* a called function or command and its arguments
    call_out,           \* what the call returned or displayed, None before
    ingest_pc,          \* where ingest_pipeline stands
    ingest_manifest,    \* ingest_pipeline's manifest and the input files it names
    ingest_cache,       \* the cache directory: whether it exists, and its files
    ingest_result,      \* ingest_pipeline's result, what it returned or raised
    ingest_log          \* the inputs ingest_pipeline has warned about

vars == <<citations, citation_counter, mgr_ret, fmt_in, fmt_out,
          split_in, split_out, exam_text, exam_out,
          map_in, map_out, cov_in, cov_out, render_in, render_out,
          build_pc, build_env, build_chunks, build_topics, build_mapping,
          build_coverage, build_idx, build_context, build_sections, build_log,
          build_files, build_result, call_in, call_out,
          ingest_pc, ingest_manifest, ingest_cache, ingest_result, ingest_log>>

citeVars == <<citations, citation_counter, mgr_ret>>
fmtVars == <<fmt_in, fmt_out>>
splitVars == <<split_in, split_out>>
examVars == <<exam_text, exam_out>>
mapVars == <<map_in, map_out>>
covVars == <<cov_in, cov_out>>
renderVars == <<render_in, render_out>>
buildVars == <<build_pc, build_env, build_chunks, build_topics, build_mapping,
               build_coverage, build_idx, build_context, build_sections, build_log,
               build_files, build_result>>
callVars == <<call_in, call_out>>
ingestVars == <<ingest_pc, ingest_manifest, ingest_cache, ingest_result, ingest_log>>

(***************************************************************************)
(* Python helpers                                                          *)
(***************************************************************************)
\* dict.get(key, default)
Get(d, key, default) == IF key \in DOMAIN d THEN d[key] ELSE default

None == <<>>
Some(v) == <<v>>

\* f"{n:02d}" for n >= 0
Pad2(n) == IF n < 10 THEN "0" \o ToString(n) ELSE ToString(n)

(***************************************************************************)
(* Bounds                                                                  *)
(***************************************************************************)
MaxCitations == 3       \* add_citation calls between two clear calls
TicksPerSecond == 2     \* resolution of a fractional number of seconds
MaxSegments == 2        \* segments handed to split_into_chunks
MaxTextLen == 4         \* characters of a segment's text
MaxChunkSize == 2       \* largest max_chunk_size tried
MaxLines == 4           \* lines of an exam paper
MaxTopics == 2          \* topics of a topics file
MaxChunks == 2          \* chunks handed to map_chunks_to_topics
MaxMapped == 3          \* chunk indices mapped to one topic
MaxSections == 2        \* sections handed to render_markdown_document
MaxCached == 2          \* records in the cache of a session
MaxTopK == 2            \* largest retrieval.top_k tried
MaxIndexed == 3         \* chunks held by the index that search_similar queries
MaxRanked == 4          \* chunks handed to rank_by_source_diversity
MaxDedup == 4           \* chunks handed to deduplicate_chunks
MaxMerged == 4          \* segments handed to merge_short_segments
MaxMinLength == 2       \* largest min_length tried
MaxPieces == 3          \* formulas and stretches of plain text of a text
MaxStats == 4           \* coverage records handed to calculate_overall_coverage
MaxTicks == 130         \* every number of ticks up to it is converted to a timecode
MaxLinked == 2          \* sections of a document whose links are checked


(***************************************************************************)
(* utils/timecode.py                                                       *)
(***************************************************************************)
\* seconds_to_timecode(seconds); seconds is a count of ticks, TicksPerSecond
\* ticks to the second, so that fractional seconds are inputs too.  Python's
\* // and % on a non-negative float are floor division and remainder.
seconds_to_timecode(seconds) ==
    LET hours   == seconds \div (3600 * TicksPerSecond)
        minutes == (seconds % (3600 * TicksPerSecond)) \div (60 * TicksPerSecond)
        secs    == (seconds % (60 * TicksPerSecond)) \div TicksPerSecond
    IN  Pad2(hours) \o ":" \o Pad2(minutes) \o ":" \o Pad2(secs)

(***************************************************************************)
(* synthesis/citations.py: CitationManager                                 *)
(***************************************************************************)
\* CitationManager.__init__
CitationManagerInit ==
    /\ citations = <<>>
    /\ citation_counter = 0

\* the record add_citation builds; metadata or {} is the metadata given or
\* the empty dict (None and {} both give {})
new_citation(citation_id, source_type, source_id, content, metadata) ==
    [id |-> citation_id, type |-> source_type, source_id |-> source_id,
     content |-> content, metadata |-> metadata]

\* the counter after add_citation's increment
next_counter(counter) == counter + 1

\* f"cite_{self.citation_counter}"
citation_id_of(counter) == "cite_" \o ToString(counter)

\* CitationManager.get_citation_by_id: the first citation with the id, None
\* when there is none
get_citation_by_id(cits, citation_id) ==
    LET hits == {i \in 1..Len(cits) : cits[i].id = citation_id}
    IN  IF hits = {} THEN None
        ELSE Some(cits[CHOOSE i \in hits : \A j \in hits : i <= j])

\* CitationManager.get_citation_count
get_citation_count(cits) == Len(cits)

\* a clear() that empties the list and goes on counting
clear_counter_kept == citation_counter

\* counter value clear() leaves
clear_counter == 0

\* CitationManager.add_citation
add_citation(source_type, source_id, content, metadata) ==
    /\ Len(citations) < MaxCitations
    /\ citation_counter' = next_counter(citation_counter)
    /\ citations' = Append(citations,
           new_citation(citation_id_of(citation_counter'), source_type,
                        source_id, content, metadata))
    /\ mgr_ret' = [op |-> "add", id |-> citation_id_of(citation_counter'),
                   args |-> <<source_type, source_id, content, metadata>>]

\* CitationManager.clear
clear ==
    /\ citations' = <<>>
    /\ citation_counter' = clear_counter
    /\ mgr_ret' = [op |-> "clear"]

\* a start test that also rejects 0 ("if start:")
start_is_truthy(start) == start # None /\ start[1] # 0

\* "start is not None"
start_is_given(start) == start # None

\* CitationManager.format_citation
format_citation(chunk) ==
    LET source_type == Get(chunk, "source", "unknown")
    IN  IF source_type = "transcript" \/ source_type = "asr"
        THEN LET start == Get(chunk, "start", None)
             IN  IF start_is_given(start)
                 THEN "[vid " \o seconds_to_timecode(start[1]) \o "]"
                 ELSE "[vid]"
        ELSE IF source_type = "slides"
        THEN "[slide " \o (IF "slide_number" \in DOMAIN chunk
                           THEN ToString(chunk["slide_number"]) ELSE "?") \o "]"
        ELSE IF source_type = "exam"
        THEN "[exam " \o Get(chunk, "question_id", "?") \o "]"
        ELSE "[" \o source_type \o "]"

\* the unique labels of format_multiple_citations, in first-occurrence order
RECURSIVE unique_labels(_, _)
unique_labels(chunks, acc) ==
    IF chunks = <<>> THEN acc
    ELSE LET citation == format_citation(Head(chunks))
         IN  unique_labels(Tail(chunks),
                 IF \E i \in 1..Len(acc) : acc[i] = citation
                 THEN acc ELSE Append(acc, citation))

\* " ".join(strings)
RECURSIVE join_space(_)
join_space(strings) ==
    IF strings = <<>> THEN ""
    ELSE IF Len(strings) = 1 THEN strings[1]
    ELSE strings[1] \o " " \o join_space(Tail(strings))

\* CitationManager.format_multiple_citations
format_multiple_citations(chunks) == join_space(unique_labels(chunks, <<>>))

(***************************************************************************)
(* nlp/splitter.py                                                         *)
(***************************************************************************)
Whitespace == {" "}

\* str.split(): the maximal runs of non-whitespace characters, in order
RECURSIVE split_from(_, _, _)
split_from(text, word, words) ==
    IF text = <<>>
    THEN IF word = <<>> THEN words ELSE Append(words, word)
    ELSE IF Head(text) \in Whitespace
    THEN split_from(Tail(text), <<>>,
                    IF word = <<>> THEN words ELSE Append(words, word))
    ELSE split_from(Tail(text), Append(word, Head(text)), words)

\* a split that loses the last word
str_split_but_last(text) ==
    LET words == split_from(text, <<>>, <<>>)
    IN  SubSeq(words, 1, Len(words) - 1)

str_split(text) == split_from(text, <<>>, <<>>)

\* ' '.join(words)
RECURSIVE str_join(_)
str_join(words) ==
    IF words = <<>> THEN <<>>
    ELSE IF Len(words) = 1 THEN words[1]
    ELSE words[1] \o <<" ">> \o str_join(Tail(words))

\* a chunk that is made anew and copies nothing of the segment
split_chunk_bare(segment, chunk_text) == [text |-> chunk_text, is_split |-> TRUE]

\* chunk = segment.copy(); chunk["text"] = chunk_text; chunk["is_split"] = True
split_chunk(segment, chunk_text) ==
    [k \in DOMAIN segment \cup {"text", "is_split"} |->
        IF k = "text" THEN chunk_text
        ELSE IF k = "is_split" THEN TRUE
        ELSE segment[k]]

\* len(word) + 1, the word and the space after it
word_length(word) == Len(word) + 1

\* the loop over the words of one long segment and the chunk added after it
RECURSIVE split_words(_, _, _, _, _, _)
split_words(segment, words, current_chunk, current_length, max_chunk_size, chunks) ==
    IF words = <<>>
    THEN IF current_chunk # <<>>
         THEN Append(chunks, split_chunk(segment, str_join(current_chunk)))
         ELSE chunks
    ELSE LET word == Head(words)
         IN  IF current_length + word_length(word) > max_chunk_size
                    /\ current_chunk # <<>>
             THEN split_words(segment, Tail(words), <<word>>, word_length(word),
                      max_chunk_size,
                      Append(chunks, split_chunk(segment, str_join(current_chunk))))
             ELSE split_words(segment, Tail(words), Append(current_chunk, word),
                      current_length + word_length(word), max_chunk_size, chunks)

\* split_into_chunks(segments, max_chunk_size)
RECURSIVE split_into_chunks(_, _)
split_into_chunks(segments, max_chunk_size) ==
    IF segments = <<>> THEN <<>>
    ELSE LET segment == Head(segments)
             text == Get(segment, "text", <<>>)
         IN  (IF Len(text) <= max_chunk_size
              THEN <<segment>>
              ELSE split_words(segment, str_split(text), <<>>, 0,
                               max_chunk_size, <<>>))
             \o split_into_chunks(Tail(segments), max_chunk_size)

\* a test that also takes a text of min_length characters for a short one
is_short_or_equal(text, min_length) == Len(text) <= min_length

\* merge_short_segments: len(text) < min_length
is_short(text, min_length) == Len(text) < min_length

\* merge_short_segments: the segment made of the buffered segments
merged_segment(buffer) ==
    LET merged_text == str_join([b \in DOMAIN buffer |-> Get(buffer[b], "text", <<>>)])
    IN  [k \in DOMAIN buffer[1] \cup {"text", "is_merged"} |->
            IF k = "text" THEN merged_text
            ELSE IF k = "is_merged" THEN TRUE
            ELSE buffer[1][k]]

\* merge_short_segments: the loop over the segments and the flush after it
RECURSIVE merge_from(_, _, _, _)
merge_from(segments, min_length, buffer, merged) ==
    IF segments = <<>>
    THEN IF buffer # <<>> THEN Append(merged, merged_segment(buffer)) ELSE merged
    ELSE LET segment == Head(segments)
             text == Get(segment, "text", <<>>)
         IN  IF is_short(text, min_length)
             THEN merge_from(Tail(segments), min_length, Append(buffer, segment), merged)
             ELSE merge_from(Tail(segments), min_length, <<>>,
                      Append(IF buffer # <<>>
                             THEN Append(merged, merged_segment(buffer))
                             ELSE merged,
                             segment))

\* merge_short_segments(segments, min_length)
merge_short_segments(segments, min_length) ==
    IF segments = <<>> THEN <<>> ELSE merge_from(segments, min_length, <<>>, <<>>)

(***************************************************************************)
(* ingestion/exam_parser.py                                                *)
(***************************************************************************)
Digits == <<"0", "1", "2", "3", "4", "5", "6", "7", "8", "9">>
LowerLetters == <<"a", "b", "c", "d", "e", "f", "g", "h", "i", "j", "k", "l", "m",
                  "n", "o", "p", "q", "r", "s", "t", "u", "v", "w", "x", "y", "z">>
UpperLetters == <<"A", "B", "C", "D", "E", "F", "G", "H", "I", "J", "K", "L", "M",
                  "N", "O", "P", "Q", "R", "S", "T", "U", "V", "W", "X", "Y", "Z">>
Range(q) == {q[i] : i \in DOMAIN q}

is_digit(c) == c \in Range(Digits)
is_lower(c) == c \in Range(LowerLetters)
is_letter(c) == c \in Range(LowerLetters) \cup Range(UpperLetters)
is_space(c) == c \in Whitespace \cup {"\n"}
to_lower(c) ==
    IF c \in Range(UpperLetters)
    THEN LowerLetters[CHOOSE i \in DOMAIN UpperLetters : UpperLetters[i] = c]
    ELSE c

\* int(digits)
RECURSIVE str_to_int(_)
str_to_int(digits) ==
    IF digits = <<>> THEN 0
    ELSE 10 * str_to_int(SubSeq(digits, 1, Len(digits) - 1))
         + (CHOOSE i \in DOMAIN Digits : Digits[i] = digits[Len(digits)]) - 1

\* the number of characters from position i on that satisfy Class(_)
RECURSIVE run_length(_, _, _)
run_length(Class(_), text, i) ==
    IF i <= Len(text) /\ Class(text[i])
    THEN 1 + run_length(Class, text, i + 1) ELSE 0

\* whether text holds word at position i, ignoring case
has_word(text, i, word) ==
    /\ i + Len(word) - 1 <= Len(text)
    /\ \A k \in 1..Len(word) : to_lower(text[i + k - 1]) = word[k]

char_at(text, i) == IF i \in 1..Len(text) THEN text[i] ELSE ""

\* str.strip()
RECURSIVE str_strip(_)
str_strip(text) ==
    IF text = <<>> THEN text
    ELSE IF is_space(Head(text)) THEN str_strip(Tail(text))
    ELSE IF is_space(text[Len(text)]) THEN str_strip(SubSeq(text, 1, Len(text) - 1))
    ELSE text

\* text.split('\n')
RECURSIVE split_lines(_, _, _)
split_lines(text, line, lines) ==
    IF text = <<>> THEN Append(lines, line)
    ELSE IF Head(text) = "\n" THEN split_lines(Tail(text), <<>>, Append(lines, line))
    ELSE split_lines(Tail(text), Append(line, Head(text)), lines)

\* one bracketed marks pattern matched at position i: open, \d+, then
\* (with_word) \s*marks? , then close; the digits, or None
marks_at(text, i, open, close, with_word) ==
    LET d == run_length(is_digit, text, i + 1)
        w == i + 1 + d + run_length(is_space, text, i + 1 + d)
        e == IF ~with_word THEN i + 1 + d
             ELSE IF ~has_word(text, w, <<"m", "a", "r", "k">>) THEN 0
             ELSE IF char_at(text, w + 4) = close THEN w + 4
             ELSE IF to_lower(char_at(text, w + 4)) = "s" THEN w + 5
             ELSE 0
    IN  IF char_at(text, i) = open /\ d >= 1 /\ e > 0 /\ char_at(text, e) = close
        THEN Some(SubSeq(text, i + 1, i + d)) ELSE None

\* the leftmost match of one marks pattern at position i or later
RECURSIVE marks_from(_, _, _, _, _)
marks_from(text, i, open, close, with_word) ==
    IF i > Len(text) THEN None
    ELSE IF marks_at(text, i, open, close, with_word) # None
    THEN marks_at(text, i, open, close, with_word)
    ELSE marks_from(text, i + 1, open, close, with_word)

\* re.search(pattern, text, re.IGNORECASE) for one marks pattern
marks_search(text, open, close, with_word) ==
    marks_from(text, 1, open, close, with_word)

\* extract_marks(text): the first of the four patterns that is found
extract_marks(text) ==
    LET m1 == marks_search(text, "[", "]", TRUE)
        m2 == marks_search(text, "(", ")", TRUE)
        m3 == marks_search(text, "[", "]", FALSE)
        m4 == marks_search(text, "(", ")", FALSE)
    IN  IF m1 # None THEN str_to_int(m1[1])
        ELSE IF m2 # None THEN str_to_int(m2[1])
        ELSE IF m3 # None THEN str_to_int(m3[1])
        ELSE IF m4 # None THEN str_to_int(m4[1])
        ELSE 0

\* re.match(r'Section\s+([A-Z])', line, re.IGNORECASE): group 1, or None
section_match(line) ==
    LET n == run_length(is_space, line, 8)
    IN  IF has_word(line, 1, <<"s", "e", "c", "t", "i", "o", "n">>)
               /\ n >= 1 /\ is_letter(char_at(line, 8 + n))
        THEN Some(line[8 + n]) ELSE None

\* re.match(r'(?:Question\s+)?(\d+)[.)]', line, re.IGNORECASE): group 1, or None
question_match(line) ==
    LET n == run_length(is_space, line, 9)
        p == IF has_word(line, 1, <<"q", "u", "e", "s", "t", "i", "o", "n">>) /\ n >= 1
             THEN 9 + n ELSE 1
        d == run_length(is_digit, line, p)
    IN  IF d >= 1 /\ char_at(line, p + d) \in {".", ")"}
        THEN Some(SubSeq(line, p, p + d - 1)) ELSE None

is_roman(c) == c \in {"i", "v", "x", "I", "V", "X"}
is_closer(c) == c \in {")", "]"}

\* re.match(r'[\(\[]?([a-z]|[ivxIVX]+)[\)\]]', line): group 1, or None
part_match(line) ==
    LET p == IF char_at(line, 1) \in {"(", "["} THEN 2 ELSE 1
        r == run_length(is_roman, line, p)
    IN  IF is_lower(char_at(line, p)) /\ is_closer(char_at(line, p + 1))
        THEN Some(<<line[p]>>)
        ELSE IF r >= 1 /\ is_closer(char_at(line, p + r))
        THEN Some(SubSeq(line, p, p + r - 1))
        ELSE None

\* the question record opened by a question line
new_question(line, question_num, current_section) ==
    [source |-> "exam", section |-> current_section,
     question_id |-> <<"Q">> \o question_num,
     question_number |-> str_to_int(question_num),
     text |-> line, parts |-> <<>>, marks |-> extract_marks(line)]

\* the part record opened by a part line
new_part(line, part_id) ==
    [part_id |-> part_id, text |-> line, marks |-> extract_marks(line)]

\* what becomes of the part that is open when the next question line comes:
\* the question is appended as it is, the open part is dropped
close_question(current_question, current_part) == current_question

\* the loop state of parse_exam_structure
ParseStart ==
    [questions |-> <<>>, current_section |-> None,
     current_question |-> None, current_part |-> None]

\* one iteration of the loop over the lines, line being the stripped line
parse_stripped(st, line) ==
    LET section == section_match(line)
        question == question_match(line)
        part == part_match(line)
    IN  IF line = <<>> THEN st
        ELSE IF section # None
        THEN [st EXCEPT !.current_section = Some(section[1])]
        ELSE IF question # None
        THEN [st EXCEPT
                !.questions =
                    IF st.current_question # None
                    THEN Append(@, close_question(st.current_question[1],
                                                  st.current_part))
                    ELSE @,
                !.current_question =
                    Some(new_question(line, question[1], st.current_section)),
                !.current_part = None]
        ELSE IF part # None /\ st.current_question # None
        THEN [st EXCEPT
                !.current_question =
                    IF st.current_part # None
                    THEN Some([@[1] EXCEPT !.parts = Append(@, st.current_part[1])])
                    ELSE @,
                !.current_part = Some(new_part(line, part[1]))]
        ELSE IF st.current_part # None
        THEN [st EXCEPT !.current_part =
                 Some([@[1] EXCEPT !.text = @ \o <<" ">> \o line])]
        ELSE IF st.current_question # None
        THEN [st EXCEPT !.current_question =
                 Some([@[1] EXCEPT !.text = @ \o <<" ">> \o line])]
        ELSE st

\* line = line.strip() and the rest of the iteration; the stripped line is
\* computed once
parse_line(st, raw) ==
    CHOOSE next \in {parse_stripped(st, line) : line \in {str_strip(raw)}} : TRUE

\* the loop over the lines; the state after a line is computed once
RECURSIVE parse_lines(_, _)
parse_lines(st, lines) ==
    IF lines = <<>> THEN st
    ELSE CHOOSE last \in {parse_lines(next, rest) :
                              next \in {parse_line(st, Head(lines))},
                              rest \in {Tail(lines)}} : TRUE

\* "Add last question and part", st being the state the loop ended in
add_last(st) ==
    LET last == IF st.current_part # None /\ st.current_question # None
                THEN Some([st.current_question[1] EXCEPT
                              !.parts = Append(@, st.current_part[1])])
                ELSE st.current_question
    IN  IF last # None THEN Append(st.questions, last[1]) ELSE st.questions

\* parse_exam_structure(text)
parse_exam_structure(text) ==
    CHOOSE questions \in
        {add_last(st) : st \in {parse_lines(ParseStart,
                                             split_lines(text, <<>>, <<>>))}} : TRUE

(***************************************************************************)
(* Numbers.  A Python float that the code only divides and multiplies is   *)
(* the exact fraction n / d, kept in lowest terms with d > 0; rounding of  *)
(* the floating-point operations is left out.                              *)
(***************************************************************************)
Abs(x) == IF x < 0 THEN 0 - x ELSE x

RECURSIVE GCD(_, _)
GCD(a, b) == IF b = 0 THEN a ELSE GCD(b, a % b)

Rat(n, d) ==
    LET g == GCD(Abs(n), Abs(d))
        s == IF d < 0 THEN 0 - 1 ELSE 1
    IN  [n |-> (s * n) \div g, d |-> (s * d) \div g]

RatInt(i) == Rat(i, 1)
RatMul(x, y) == Rat(x.n * y.n, x.d * y.d)
RatLeq(x, y) == x.n * y.d <= y.n * x.d

(***************************************************************************)
(* nlp/topic_mapping.py                                                    *)
(***************************************************************************)
\* name.lower().replace(" ", "_")
id_from_name(name) ==
    [i \in DOMAIN name |-> IF name[i] = " " THEN "_" ELSE to_lower(name[i])]

\* the default of topic.get("weight", 1.0)
default_weight == RatInt(1)

\* the dict load_topics builds of one topic
normalized_topic(topic) ==
    [id |-> Get(topic, "id", id_from_name(Get(topic, "name", <<>>))),
     name |-> Get(topic, "name", <<>>),
     keywords |-> Get(topic, "keywords", <<>>),
     weight |-> Get(topic, "weight", default_weight),
     description |-> Get(topic, "description", <<>>)]

\* load_topics(topics_data)
load_topics(topics_data) ==
    [i \in DOMAIN topics_data |-> normalized_topic(topics_data[i])]

\* a threshold test that leaves the threshold itself out
score_above(score, threshold) == score > threshold

\* "score >= threshold"
score_passes(score, threshold) == score >= threshold

\* the inner loop of map_chunks_to_topics: the scores of one chunk, from
\* topic index topic_idx on (indices count from 0 as in the code)
RECURSIVE map_scores(_, _, _, _, _, _)
map_scores(topic_mapping, topics, sim_scores, chunk_idx, topic_idx, threshold) ==
    IF topic_idx >= Len(sim_scores) THEN topic_mapping
    ELSE LET score == sim_scores[topic_idx + 1]
             topic_id == topics[topic_idx + 1].id
             appended ==
                 IF score_passes(score, threshold)
                 THEN [topic_mapping EXCEPT ![topic_id] = Append(@, chunk_idx)]
                 ELSE topic_mapping
         IN  map_scores(appended, topics, sim_scores, chunk_idx,
                        topic_idx + 1, threshold)

\* the outer loop of map_chunks_to_topics: the rows from chunk_idx on
RECURSIVE map_rows(_, _, _, _, _)
map_rows(topic_mapping, topics, similarities, chunk_idx, threshold) ==
    IF chunk_idx >= Len(similarities) THEN topic_mapping
    ELSE map_rows(map_scores(topic_mapping, topics, similarities[chunk_idx + 1],
                             chunk_idx, 0, threshold),
                  topics, similarities, chunk_idx + 1, threshold)

\* map_chunks_to_topics, given the similarity matrix that cosine_similarity
\* returned for the chunk and topic embeddings (one row per chunk, one
\* score per topic, in tenths)
map_chunks_to_topics(topics, similarities, threshold) ==
    map_rows([id \in {topics[t].id : t \in DOMAIN topics} |-> <<>>],
             topics, similarities, 0, threshold)

\* a percentage in whole numbers
coverage_pct_floor(chunk_count, total_chunks) ==
    IF total_chunks > 0 THEN RatInt((chunk_count * 100) \div total_chunks)
    ELSE RatInt(0)

\* (chunk_count / total_chunks * 100) if total_chunks > 0 else 0.0
coverage_pct(chunk_count, total_chunks) ==
    IF total_chunks > 0
    THEN RatMul(Rat(chunk_count, total_chunks), RatInt(100))
    ELSE RatInt(0)

\* the record calculate_coverage appends for one topic
coverage_record(topic_mapping, topic, total_chunks) ==
    LET topic_id == topic.id
        mapped_chunks == Get(topic_mapping, topic_id, <<>>)
        chunk_count == Len(mapped_chunks)
        pct == coverage_pct(chunk_count, total_chunks)
    IN  [topic_id |-> topic_id,
         name |-> topic.name,
         chunk_count |-> chunk_count,
         coverage_percentage |-> pct,
         weight |-> Get(topic, "weight", default_weight),
         weighted_coverage |-> RatMul(pct, Get(topic, "weight", default_weight))]

\* calculate_coverage(topic_mapping, topics, total_chunks)
calculate_coverage(topic_mapping, topics, total_chunks) ==
    [i \in DOMAIN topics |-> coverage_record(topic_mapping, topics[i], total_chunks)]

(***************************************************************************)
(* render/templater.py                                                     *)
(***************************************************************************)
\* str(n) for n >= 0, character by character
RECURSIVE int_to_chars(_)
int_to_chars(n) ==
    IF n < 10 THEN <<Digits[n + 1]>>
    ELSE int_to_chars(n \div 10) \o <<Digits[(n % 10) + 1]>>

\* the string of a sequence of characters
RECURSIVE chars_to_str(_)
chars_to_str(chars) ==
    IF chars = <<>> THEN "" ELSE Head(chars) \o chars_to_str(Tail(chars))

\* a number printed without padding
unpadded_chars(n) == int_to_chars(n)

\* f"{n:02d}" for n >= 0, character by character
pad2_chars(n) == IF n < 10 THEN <<"0">> \o int_to_chars(n) ELSE int_to_chars(n)

\* seconds_to_timecode(seconds), character by character; seconds in ticks
timecode_chars(seconds) ==
    LET hours   == seconds \div (3600 * TicksPerSecond)
        minutes == (seconds % (3600 * TicksPerSecond)) \div (60 * TicksPerSecond)
        secs    == (seconds % (60 * TicksPerSecond)) \div TicksPerSecond
    IN  pad2_chars(hours) \o <<":">> \o pad2_chars(minutes) \o <<":">> \o pad2_chars(secs)

\* timecode.split(':')
RECURSIVE split_colon(_, _, _)
split_colon(text, part, parts) ==
    IF text = <<>> THEN Append(parts, part)
    ELSE IF Head(text) = ":" THEN split_colon(Tail(text), <<>>, Append(parts, part))
    ELSE split_colon(Tail(text), Append(part, Head(text)), parts)

\* float(seconds) of a string of digits, in ticks
float_of(digits) == str_to_int(digits) * TicksPerSecond

\* timecode_to_seconds(timecode), in ticks
timecode_to_seconds(timecode) ==
    LET parts == split_colon(timecode, <<>>, <<>>)
    IN  IF Len(parts) = 3
        THEN (str_to_int(parts[1]) * 3600 + str_to_int(parts[2]) * 60) * TicksPerSecond
                 + float_of(parts[3])
        ELSE IF Len(parts) = 2
        THEN str_to_int(parts[1]) * 60 * TicksPerSecond + float_of(parts[2])
        ELSE float_of(parts[1])

\* f"Topic {i}"
default_topic(i) == <<"T", "o", "p", "i", "c", " ">> \o int_to_chars(i)

\* topic.lower().replace(' ', '-')
anchor_of(topic) ==
    [k \in DOMAIN topic |-> IF topic[k] = " " THEN "-" ELSE to_lower(topic[k])]

\* the lines of the document head; a line is the sequence of the literal and
\* interpolated pieces of its f-string, now is datetime.now() as strftime
\* prints it
header_lines(session_id, now) ==
    << <<"# Exam Preparation Notes - ", session_id>>,
       <<"">>,
       <<"**Generated:** ", now>>,
       <<"">>,
       <<"---">>,
       <<"">> >>

\* the entry of the table of contents for section i
toc_line(i, section) ==
    LET topic == Get(section, "topic", default_topic(i))
    IN  <<ToString(i), ". [", chars_to_str(topic), "](#",
          chars_to_str(anchor_of(topic)), ")">>

\* "if section.get(key):" followed by the title and the text of the key
subsection_lines(section, key, title) ==
    IF Get(section, key, "") # ""
    THEN << <<title>>, <<section[key], "\n">> >>
    ELSE <<>>

\* the lines of section i
section_lines(i, section) ==
    LET topic == Get(section, "topic", default_topic(i))
        citations_str == Get(section, "citations", "")
    IN  << <<"## ", ToString(i), ". ", chars_to_str(topic), "\n">> >>
        \o (IF Get(section, "definition", "") # ""
            THEN << <<"### Definition\n">>, <<section["definition"], "\n">> >>
                 \o (IF citations_str # ""
                     THEN << <<"*Sources: ", citations_str, "*\n">> >>
                     ELSE <<>>)
            ELSE <<>>)
        \o subsection_lines(section, "key_formulas", "### Key Formulas\n")
        \o subsection_lines(section, "derivation", "### Derivation\n")
        \o subsection_lines(section, "examples", "### Worked Examples\n")
        \o subsection_lines(section, "mistakes", "### Common Mistakes\n")
        \o subsection_lines(section, "revision", "### Quick Revision\n")
        \o << <<"\n---\n">> >>

\* the lines of sections i .. len(sections), per section by line_of(i, section)
RECURSIVE lines_from(_, _, _)
lines_from(line_of(_, _), sections, i) ==
    IF i > Len(sections) THEN <<>>
    ELSE line_of(i, sections[i]) \o lines_from(line_of, sections, i + 1)

toc_lines(i, section) == <<toc_line(i, section)>>

\* render_markdown_document: the list "lines" that the function joins with
\* "\n" into the document
render_markdown_document(sections, session_id, now) ==
    header_lines(session_id, now)
    \o << <<"## Table of Contents\n">> >>
    \o lines_from(toc_lines, sections, 1)
    \o << <<"\n---\n">> >>
    \o lines_from(section_lines, sections, 1)

(***************************************************************************)
(* nlp/embeddings.py, nlp/retrieval.py                                     *)
(***************************************************************************)
\* list[idx] with Python's indices: from 0, and from the end when negative
py_index(list, idx) ==
    IF idx >= 0 THEN list[idx + 1] ELSE list[Len(list) + idx + 1]

\* the sequences of m distinct elements of S
RECURSIVE InjectiveSeqs(_, _)
InjectiveSeqs(S, m) ==
    IF m = 0 THEN {<<>>}
    ELSE UNION {{Append(q, x) : x \in S \ Range(q)} : q \in InjectiveSeqs(S, m - 1)}

\* what index.search(query_embedding, top_k) can return for a flat L2 index
\* that holds one vector per text: the nearest min(top_k, n) vectors by
\* non-decreasing distance, vectors at the same distance in any order, equal
\* texts (equal vectors) at equal distances; an index that holds fewer than
\* top_k vectors fills the answer with the index -1 and a distance beyond
\* every distance.  Dists is the set of distances that are tried.
index_search(texts, top_k, Dists) ==
    LET n == Len(texts)
        m == IF top_k < n THEN top_k ELSE n
        beyond == 1 + CHOOSE d \in Dists : \A e \in Dists : e <= d
        nearest(dist) ==
            {sel \in InjectiveSeqs(0..(n - 1), m) :
                /\ \A k \in 1..(m - 1) :
                       dist[texts[sel[k] + 1]] <= dist[texts[sel[k + 1] + 1]]
                /\ \A j \in (0..(n - 1)) \ Range(sel) : \A k \in 1..m :
                       dist[texts[sel[k] + 1]] <= dist[texts[j + 1]]}
        answer(dist, sel) ==
            [distances |-> [k \in 1..top_k |->
                               IF k <= m THEN dist[texts[sel[k] + 1]] ELSE beyond],
             indices |-> [k \in 1..top_k |-> IF k <= m THEN sel[k] ELSE 0 - 1]]
    IN  UNION {{answer(dist, sel) : sel \in nearest(dist)} :
                  dist \in [Range(texts) -> Dists]}

\* a result whose rank counts from 0
search_result_rank0(metadata, dist, idx, i) ==
    LET chunk == py_index(metadata, idx)
    IN  [k \in DOMAIN chunk \cup {"distance", "rank"} |->
            IF k = "distance" THEN dist
            ELSE IF k = "rank" THEN i
            ELSE chunk[k]]

\* the result search_similar builds of one entry of the answer
search_result(metadata, dist, idx, i) ==
    LET chunk == py_index(metadata, idx)
    IN  [k \in DOMAIN chunk \cup {"distance", "rank"} |->
            IF k = "distance" THEN dist
            ELSE IF k = "rank" THEN i + 1
            ELSE chunk[k]]

\* search_similar, given what index.search answered
search_similar(answer, metadata) ==
    [k \in DOMAIN answer.indices |->
        search_result(metadata, answer.distances[k], answer.indices[k], k - 1)]

\* retrieve_context_for_topic, given what index.search answered
retrieve_context_for_topic(answer, chunks_metadata) ==
    search_similar(answer, chunks_metadata)

\* a comparison with the chunk kept last only
is_duplicate_of_last(text, unique_chunks) ==
    Get(unique_chunks[Len(unique_chunks)], "text", <<>>) = text

\* deduplicate_chunks: the inner loop, over the chunks kept so far
is_duplicate(text, unique_chunks) ==
    \E u \in DOMAIN unique_chunks : Get(unique_chunks[u], "text", <<>>) = text

\* deduplicate_chunks: the loop over chunks[1:], unique_chunks so far
RECURSIVE dedup_from(_, _)
dedup_from(chunks, unique_chunks) ==
    IF chunks = <<>> THEN unique_chunks
    ELSE LET text == Get(Head(chunks), "text", <<>>)
         IN  dedup_from(Tail(chunks),
                        IF is_duplicate(text, unique_chunks) THEN unique_chunks
                        ELSE Append(unique_chunks, Head(chunks)))

\* deduplicate_chunks(chunks)
deduplicate_chunks(chunks) ==
    IF chunks = <<>> THEN <<>> ELSE dedup_from(Tail(chunks), <<Head(chunks)>>)

\* the keys of by_source, in the order in which they were inserted
RECURSIVE sources_of(_, _)
sources_of(chunks, seen) ==
    IF chunks = <<>> THEN seen
    ELSE LET source == Get(Head(chunks), "source", "unknown")
         IN  sources_of(Tail(chunks),
                        IF source \in Range(seen) THEN seen ELSE Append(seen, source))

\* a grouping that leaves out the chunks without a source
by_source_named(chunks, source) ==
    SelectSeq(chunks, LAMBDA c : "source" \in DOMAIN c /\ c["source"] = source)

\* by_source[source]
by_source(chunks, source) ==
    SelectSeq(chunks, LAMBDA c : Get(c, "source", "unknown") = source)

\* a priority order that does not look at prefer_exam
source_priority_fixed(prefer_exam) == <<"exam", "slides", "transcript", "asr">>

source_priority(prefer_exam) ==
    IF prefer_exam THEN <<"exam", "slides", "transcript", "asr">>
    ELSE <<"slides", "transcript", "exam", "asr">>

\* the concatenation of a sequence of sequences
RECURSIVE flatten(_)
flatten(seqs) == IF seqs = <<>> THEN <<>> ELSE Head(seqs) \o flatten(Tail(seqs))

\* rank_by_source_diversity(chunks, prefer_exam)
rank_by_source_diversity(chunks, prefer_exam) ==
    LET sources == sources_of(chunks, <<>>)
        priority == source_priority(prefer_exam)
        lengths == {Len(by_source(chunks, sources[s])) : s \in DOMAIN sources}
        max_len == IF lengths = {} THEN 0
                   ELSE CHOOSE l \in lengths : \A k \in lengths : k <= l
        taken(i, source) ==
            IF i < Len(by_source(chunks, source))
            THEN <<by_source(chunks, source)[i + 1]>> ELSE <<>>
        interleaved ==
            flatten([i \in 1..max_len |->
                        flatten([p \in DOMAIN priority |-> taken(i - 1, priority[p])])])
        remaining ==
            flatten([s \in DOMAIN sources |->
                        IF sources[s] \in Range(priority) THEN <<>>
                        ELSE by_source(chunks, sources[s])])
    IN  interleaved \o remaining

(***************************************************************************)
(* ingestion/transcript_normalizer.py.  The content of a caption file is   *)
(* the list of its cues (start and end in ticks, the stripped text lines), *)
(* the content of a text file the list of its paragraphs.                  *)
(***************************************************************************)
\* the segment parse_vtt and parse_srt append for a cue
cue_segment(cue, type) ==
    [source |-> "transcript", type |-> type, start |-> Some(cue.start),
     end |-> Some(cue.end), text |-> str_join(cue.lines)]

\* the cues whose text is not empty, as segments
RECURSIVE cue_segments(_, _)
cue_segments(cues, type) ==
    IF cues = <<>> THEN <<>>
    ELSE (IF str_join(Head(cues).lines) # <<>>
          THEN <<cue_segment(Head(cues), type)>> ELSE <<>>)
         \o cue_segments(Tail(cues), type)

parse_vtt(content) == cue_segments(content, "vtt")

parse_srt(content) == cue_segments(content, "srt")

\* paragraphs = [p.strip() for p in content.split('\n\n') if p.strip()]
RECURSIVE stripped_nonempty(_)
stripped_nonempty(texts) ==
    IF texts = <<>> THEN <<>>
    ELSE (IF str_strip(Head(texts)) # <<>> THEN <<str_strip(Head(texts))>> ELSE <<>>)
         \o stripped_nonempty(Tail(texts))

parse_txt(content) ==
    LET paragraphs == stripped_nonempty(content)
    IN  [i \in DOMAIN paragraphs |->
            [source |-> "transcript", type |-> "txt", start |-> None, end |-> None,
             text |-> paragraphs[i], index |-> i - 1]]

\* list.sort(key=lambda x: x['start']): a stable sort
RECURSIVE insert_by_start(_, _)
insert_by_start(sorted, s) ==
    IF sorted = <<>> THEN <<s>>
    ELSE IF sorted[Len(sorted)].start[1] <= s.start[1] THEN Append(sorted, s)
    ELSE Append(insert_by_start(SubSeq(sorted, 1, Len(sorted) - 1), s),
                sorted[Len(sorted)])

RECURSIVE sort_by_start(_, _)
sort_by_start(segments, sorted) ==
    IF segments = <<>> THEN sorted
    ELSE sort_by_start(Tail(segments), insert_by_start(sorted, Head(segments)))

\* normalize_transcript(path), content being what the file at path holds
normalize_transcript(path, content) ==
    LET segments == IF path.suffix = ".vtt" THEN parse_vtt(content)
                    ELSE IF path.suffix = ".srt" THEN parse_srt(content)
                    ELSE parse_txt(content)
        segments_with_time ==
            SelectSeq(segments, LAMBDA s : Get(s, "start", None) # None)
        segments_without_time ==
            SelectSeq(segments, LAMBDA s : Get(s, "start", None) = None)
    IN  sort_by_start(segments_with_time, <<>>) \o segments_without_time

(***************************************************************************)
(* ingestion/slides_parser.py.  The content of a PPTX file is the list of  *)
(* its slides (title, texts of the shapes, notes, number of pictures), the *)
(* content of a PDF the list of its pages (text lines, image ids).         *)
(***************************************************************************)
\* the texts a slide adds to content: stripped, not empty, not the title
RECURSIVE slide_content(_, _)
slide_content(texts, title) ==
    IF texts = <<>> THEN <<>>
    ELSE (IF Head(texts) # <<>> /\ str_strip(Head(texts)) # <<>>
             /\ str_strip(Head(texts)) # title
          THEN <<str_strip(Head(texts))>> ELSE <<>>)
         \o slide_content(Tail(texts), title)

\* slide_info of parse_pptx
pptx_slide_info(slide_num, slide) ==
    LET title == IF slide.title # None THEN slide.title[1] ELSE <<>>
    IN  [source |-> "slides", type |-> "pptx", slide_number |-> slide_num,
         title |-> title, content |-> slide_content(slide.texts, title),
         notes |-> IF slide.notes # None THEN slide.notes[1] ELSE <<>>,
         images |-> [k \in 1..slide.pictures |-> <<slide_num, k - 1>>]]

parse_pptx(content) == [n \in DOMAIN content |-> pptx_slide_info(n, content[n])]

\* slide_info of parse_pdf_slides
pdf_slide_info(page_num, page) ==
    LET lines == stripped_nonempty(page.lines)
    IN  [source |-> "slides", type |-> "pdf", slide_number |-> page_num + 1,
         title |-> IF lines # <<>> THEN lines[1] ELSE <<>>,
         content |-> IF lines # <<>> THEN Tail(lines) ELSE <<>>,
         images |-> page.images]

parse_pdf_slides(content) ==
    [n \in DOMAIN content |-> pdf_slide_info(n - 1, content[n])]

\* what a call returned, or the exception it raised
Returned(value) == [returned |-> value]
Raised(exception) == [raised |-> exception]

\* parse_slides(path), content being what the file at path holds
parse_slides(path, content) ==
    IF path.suffix = ".pptx" THEN Returned(parse_pptx(content))
    ELSE IF path.suffix = ".pdf" THEN Returned(parse_pdf_slides(content))
    ELSE Raised("ValueError")

(***************************************************************************)
(* ingestion/exam_parser.py: parse_exam.  The content of the PDF is the    *)
(* list of the texts of its pages.                                         *)
(***************************************************************************)
RECURSIVE exam_full_text(_)
exam_full_text(pages) ==
    IF pages = <<>> THEN <<>>
    ELSE Head(pages) \o <<"\n">> \o exam_full_text(Tail(pages))

parse_exam(content) == parse_exam_structure(exam_full_text(content))

(***************************************************************************)
(* ingestion/ingest.py                                                     *)
(***************************************************************************)
\* a value of the manifest whose Python type the code asks for: its type and,
\* for a dict, its items
PyDict(items) == [type |-> "dict", items |-> items]
PyList(items) == [type |-> "list", items |-> items]

\* isinstance(value, dict)
\* a test that every value passes
is_any(value) == TRUE

is_dict(value) == value.type = "dict"

\* a path given as a str; "" is the path without stem and suffix
Path(stem, suffix) == [stem |-> stem, suffix |-> suffix]

\* validate_manifest
validate_manifest(manifest) ==
    IF "session_id" \notin DOMAIN manifest THEN Raised("ValueError")
    ELSE IF "inputs" \notin DOMAIN manifest THEN Raised("ValueError")
    ELSE IF ~is_dict(manifest["inputs"]) THEN Raised("ValueError")
    ELSE Returned(TRUE)

\* a test of the key alone
input_named(inputs, kind) == kind \in DOMAIN inputs

\* '"video" in inputs and inputs["video"]'
input_given(inputs, kind) == kind \in DOMAIN inputs /\ inputs[kind] # Path("", "")

\* cache_dir / f"{session_id}_transcript.jsonl" and the like
cache_path(session_id, name) == <<session_id, name>>

\* open(path, "w") and write: the file is created or replaced
write_file(files, path, content) == (path :> content) @@ files

\* result["processed_files"][kind] = str(path)
processed(result, kind, path) ==
    [result EXCEPT !["processed_files"] = (kind :> path) @@ @]

(***************************************************************************)
(* synthesis/composer.py: load_processed_data                              *)
(***************************************************************************)
\* data[kind] of load_processed_data
load_cached(session_id, files, name) ==
    IF cache_path(session_id, name) \in DOMAIN files
    THEN files[cache_path(session_id, name)] ELSE <<>>

load_processed_data(session_id, files) ==
    [transcript |-> load_cached(session_id, files, "_transcript.jsonl"),
     slides |-> load_cached(session_id, files, "_slides.jsonl"),
     exam |-> load_cached(session_id, files, "_exam.jsonl")]

(***************************************************************************)
(* synthesis/composer.py: build_pipeline                                   *)
(***************************************************************************)
\* max_chunk_size of the pipeline's split_into_chunks call
PipelineChunkSize == 500

\* a pipeline that never finds its input missing
no_chunks_unchecked(all_chunks) == FALSE

\* "if not all_chunks"
no_chunks(all_chunks) == all_chunks = <<>>

\* the topics used when there is no topics file
default_topics ==
    << [id |-> <<"d", "e", "f", "a", "u", "l", "t">>,
        name |-> <<"D", "e", "f", "a", "u", "l", "t", " ", "T", "o", "p", "i", "c">>,
        keywords |-> <<>>, weight |-> RatInt(1)] >>

\* f"{t['name']} {' '.join(t.get('keywords', []))}"
topic_text(t) == t.name \o <<" ">> \o str_join(Get(t, "keywords", <<>>))

\* texts = [chunk.get("text", "") for chunk in chunks]
chunk_texts(chunks) == [i \in DOMAIN chunks |-> Get(chunks[i], "text", <<>>)]

\* the four generation calls of a topic, in the order of the code
LLMCalls == <<"definition", "derivation", "mistakes", "revision">>

\* what generate_completion returns for a call that succeeds
LLMText ==
    [definition |-> "Def", derivation |-> "Der", mistakes |-> "Mis", revision |-> "Rev"]

\* a section whose calls come to an end with the first that raises
section_content_until_failure(topic, context_chunks, ok) ==
    LET reached(c) == \A b \in 1..c : ok[LLMCalls[b]]
    IN  [topic |-> topic.name,
         definition |-> IF reached(1) THEN LLMText["definition"] ELSE "",
         key_formulas |-> "",
         derivation |-> IF reached(2) THEN LLMText["derivation"] ELSE "",
         examples |-> "",
         mistakes |-> IF reached(3) THEN LLMText["mistakes"] ELSE "",
         revision |-> IF reached(4) THEN LLMText["revision"] ELSE "",
         citations |-> format_multiple_citations(context_chunks)]

\* section_content after the four calls; ok[key] tells whether the call
\* returned, a call that raised leaves the empty string
section_content(topic, context_chunks, ok) ==
    [topic |-> topic.name,
     definition |-> IF ok["definition"] THEN LLMText["definition"] ELSE "",
     key_formulas |-> "",
     derivation |-> IF ok["derivation"] THEN LLMText["derivation"] ELSE "",
     examples |-> "",
     mistakes |-> IF ok["mistakes"] THEN LLMText["mistakes"] ELSE "",
     revision |-> IF ok["revision"] THEN LLMText["revision"] ELSE "",
     citations |-> format_multiple_citations(context_chunks)]

\* CitationManager.export_citations
export_citations(cits) == cits

\* the files compile_typst_to_pdf leaves, by what became of the compilation
compiled_files(outcome) ==
    IF outcome = "compiled" THEN {"typ", "pdf"}
    ELSE IF outcome = "failed" THEN {"typ"}
    ELSE {}

\* the dict build_pipeline returns
build_return(sections, cits) ==
    [pdf_path |-> "pdf", notes_path |-> "notes", citations_path |-> "citations",
     coverage_path |-> "coverage", topics_processed |-> Len(sections),
     total_citations |-> get_citation_count(cits)]

(***************************************************************************)
(* utils/math_utils.py: extract_latex_formulas.  re.findall scans the text *)
(* from the left and goes on after the end of a match; [^\$]+ takes every  *)
(* character up to the next dollar sign, and a shorter run cannot match    *)
(* because the character after it is not a dollar sign.                    *)
(***************************************************************************)
\* the position of the first "$" at or after i, Len(text) + 1 when none
RECURSIVE next_dollar(_, _)
next_dollar(text, i) ==
    IF i > Len(text) \/ text[i] = "$" THEN i ELSE next_dollar(text, i + 1)

\* re.findall(r'\$([^\$]+)\$', text), from position i
RECURSIVE findall_inline(_, _)
findall_inline(text, i) ==
    IF i > Len(text) THEN <<>>
    ELSE LET close == next_dollar(text, i + 1)
         IN  IF text[i] = "$" /\ close > i + 1 /\ close <= Len(text)
             THEN <<SubSeq(text, i + 1, close - 1)>> \o findall_inline(text, close + 1)
             ELSE findall_inline(text, i + 1)

\* re.findall(r'\$\$([^\$]+)\$\$', text), from position i
RECURSIVE findall_display(_, _)
findall_display(text, i) ==
    IF i > Len(text) THEN <<>>
    ELSE LET close == next_dollar(text, i + 2)
         IN  IF /\ text[i] = "$"
                /\ i + 1 <= Len(text) /\ text[i + 1] = "$"
                /\ close > i + 2 /\ close + 1 <= Len(text)
                /\ text[close + 1] = "$"
             THEN <<SubSeq(text, i + 2, close - 1)>> \o findall_display(text, close + 2)
             ELSE findall_display(text, i + 1)

\* extract_latex_formulas(text)
extract_latex_formulas(text) == findall_inline(text, 1) \o findall_display(text, 1)

(***************************************************************************)
(* reports/coverage.py: calculate_overall_coverage.  A percentage is a     *)
(* fraction, as in calculate_coverage.                                     *)
(***************************************************************************)
RatAdd(x, y) == Rat(x.n * y.d + y.n * x.d, x.d * y.d)

\* sum(coverages)
RECURSIVE rat_sum(_)
rat_sum(values) ==
    IF values = <<>> THEN RatInt(0) ELSE RatAdd(Head(values), rat_sum(Tail(values)))

\* sorted(coverages)
RECURSIVE insert_sorted(_, _)
insert_sorted(sorted, value) ==
    IF sorted = <<>> THEN <<value>>
    ELSE IF RatLeq(sorted[Len(sorted)], value) THEN Append(sorted, value)
    ELSE Append(insert_sorted(SubSeq(sorted, 1, Len(sorted) - 1), value),
                sorted[Len(sorted)])

RECURSIVE py_sorted(_, _)
py_sorted(values, sorted) ==
    IF values = <<>> THEN sorted
    ELSE py_sorted(Tail(values), insert_sorted(sorted, Head(values)))

\* calculate_overall_coverage(coverage_data)
calculate_overall_coverage(coverage_data) ==
    IF coverage_data = <<>>
    THEN [mean |-> RatInt(0), median |-> RatInt(0), min |-> RatInt(0), max |-> RatInt(0)]
    ELSE LET coverages == [i \in DOMAIN coverage_data |->
                              coverage_data[i].coverage_percentage]
             sorted == py_sorted(coverages, <<>>)
         IN  [mean |-> RatMul(rat_sum(coverages), Rat(1, Len(coverages))),
              median |-> py_index(sorted, Len(coverages) \div 2),
              min |-> sorted[1],
              max |-> sorted[Len(sorted)]]

(***************************************************************************)
(* reports/export.py: generate_report, and cli.py: the report command      *)
(***************************************************************************)
\* a cell that pandas reads as missing
NaN == <<"N", "a", "N">>

\* a column of str cells written by to_csv and read back by read_csv: a
\* column of numerals comes back as numbers, an empty cell as NaN
csv_column(cells) ==
    IF cells # <<>> /\ \A i \in DOMAIN cells :
           cells[i] # <<>> /\ \A j \in DOMAIN cells[i] : is_digit(cells[i][j])
    THEN [i \in DOMAIN cells |-> str_to_int(cells[i])]
    ELSE [i \in DOMAIN cells |-> IF cells[i] = <<>> THEN NaN ELSE cells[i]]

\* pd.read_csv(coverage_path).to_dict("records") of the file that
\* pd.DataFrame(coverage_data).to_csv(coverage_path, index=False) wrote
read_coverage_csv(coverage_data) ==
    [i \in DOMAIN coverage_data |->
        [k \in DOMAIN coverage_data[i] |->
            IF k \in {"topic_id", "name"}
            THEN csv_column([r \in DOMAIN coverage_data |-> coverage_data[r][k]])[i]
            ELSE coverage_data[i][k]]]

\* report["qa"] of generate_report, qa_results being what run_all_checks found
qa_summary(qa_results) ==
    [formulas_checked |-> qa_results["formulas"]["total_formulas"],
     links_verified |-> qa_results["links"]["total_links"],
     citations_found |-> qa_results["citations"]["total_citations"],
     warnings |-> Len(Get(qa_results["formulas"], "invalid_formulas", <<>>))
                      + Len(Get(qa_results["links"], "broken_links", <<>>))]

\* generate_report(session_id, logger), out_files being the files of out/
generate_report(session_id, out_files, qa_results) ==
    LET coverage_path == <<session_id, "_coverage.csv">>
        citations_path == <<session_id, "_citations.json">>
        notes_path == <<session_id, "_notes.md">>
    IN  [session_id |-> session_id,
         coverage |-> IF coverage_path \in DOMAIN out_files
                      THEN read_coverage_csv(out_files[coverage_path]) ELSE <<>>,
         qa |-> IF notes_path \in DOMAIN out_files
                THEN qa_summary(qa_results) ELSE <<>>,
         citations |-> IF citations_path \in DOMAIN out_files
                       THEN out_files[citations_path] ELSE <<>>,
         coverage_path |-> IF coverage_path \in DOMAIN out_files
                           THEN Some(coverage_path) ELSE None]

\* the keys of a coverage record that the report command reads for a row
ReportRowKeys == {"name", "coverage", "source_count"}

\* table.add_row(topic["name"], f"{topic['coverage']:.1f}%",
\*               str(topic["source_count"]))
report_row(topic) ==
    IF ReportRowKeys \subseteq DOMAIN topic
    THEN Returned(<<topic["name"], topic["coverage"], topic["source_count"]>>)
    ELSE Raised("KeyError")

\* the report command after generate_report: what it displays, and its exit
\* code; an exception ends it with code 1 before anything is displayed
report_display(report_data) ==
    LET coverage == Get(report_data, "coverage", <<>>)
        qa == Get(report_data, "qa", <<>>)
    IN  IF \E i \in DOMAIN coverage : "raised" \in DOMAIN report_row(coverage[i])
        THEN [exit_code |-> 1, error |-> "KeyError", rows |-> <<>>, qa |-> None]
        ELSE [exit_code |-> 0, error |-> "",
              rows |-> [i \in DOMAIN coverage |-> report_row(coverage[i]).returned],
              qa |-> Some([formulas_checked |-> Get(qa, "formulas_checked", 0),
                           links_verified |-> Get(qa, "links_verified", 0),
                           warnings |-> Get(qa, "warnings", 0)])]

(***************************************************************************)
(* Inputs of the citation manager and of format_citation                   *)
(***************************************************************************)
SourceTypes == {"video", "slide"}
SourceIds == {"v1"}
Contents == {"Some content", ""}
Metadatas == {<<>>, [page |-> 1]}

\* start times, in ticks: whole seconds around the minute and hour borders
\* and the same plus one tick (a fractional second)
StartSeconds == {0, 59, 60, 125, 3599, 3600, 3661, 86399}
StartValues ==
    {s * TicksPerSecond : s \in StartSeconds}
        \cup {s * TicksPerSecond + 1 : s \in StartSeconds}

\* a dict with one key, or without it
Field(key, values) == {<<>>} \cup {[k \in {key} |-> v] : v \in values}

FormatChunks ==
    {s @@ t @@ n @@ q :
        s \in Field("source", {"transcript", "asr", "slides", "exam", "notes"}),
        t \in Field("start", {None} \cup {Some(v) : v \in StartValues}),
        n \in Field("slide_number", {0, 3}),
        q \in Field("question_id", {"Q1"})}

(***************************************************************************)
(* Specification of the citation manager: any sequence of add_citation and *)
(* clear calls on a fresh manager                                          *)
(***************************************************************************)
ManagerIdle ==
    /\ CitationManagerInit
    /\ mgr_ret = [op |-> "init"]

FormatIdle == fmt_in = <<>> /\ fmt_out = None
SplitIdle == split_in = <<>> /\ split_out = None
ExamIdle == exam_text = <<>> /\ exam_out = None
MapIdle == map_in = <<>> /\ map_out = None
CovIdle == cov_in = <<>> /\ cov_out = None
RenderIdle == render_in = <<>> /\ render_out = None
BuildIdle ==
    /\ build_pc = "idle"
    /\ build_env = <<>>
    /\ build_chunks = <<>>
    /\ build_topics = <<>>
    /\ build_mapping = <<>>
    /\ build_coverage = <<>>
    /\ build_idx = 0
    /\ build_context = <<>>
    /\ build_sections = <<>>
    /\ build_log = <<>>
    /\ build_files = <<>>
    /\ build_result = None
CallIdle == call_in = <<>> /\ call_out = None
IngestIdle ==
    /\ ingest_pc = "idle"
    /\ ingest_manifest = <<>>
    /\ ingest_cache = <<>>
    /\ ingest_result = None
    /\ ingest_log = {}

\* every part of the program but the named one is in its initial state
IdleExcept(part) ==
    /\ part = "cite" \/ ManagerIdle
    /\ part = "format" \/ FormatIdle
    /\ part = "split" \/ SplitIdle
    /\ part = "exam" \/ ExamIdle
    /\ part = "map" \/ MapIdle
    /\ part = "coverage" \/ CovIdle
    /\ part = "render" \/ RenderIdle
    /\ part \in {"build", "session"} \/ BuildIdle
    /\ part = "call" \/ CallIdle
    /\ part \in {"ingest", "session"} \/ IngestIdle

InitCite ==
    /\ CitationManagerInit
    /\ mgr_ret = [op |-> "init"]
    /\ IdleExcept("cite")

AddCitation ==
    /\ \E st \in SourceTypes, sid \in SourceIds, c \in Contents, m \in Metadatas :
           add_citation(st, sid, c, m)
    /\ UNCHANGED <<fmtVars, splitVars, examVars, mapVars, covVars,
                 renderVars, buildVars, callVars, ingestVars>>

Clear ==
    /\ clear
    /\ UNCHANGED <<fmtVars, splitVars, examVars, mapVars, covVars,
                 renderVars, buildVars, callVars, ingestVars>>

NextCite == AddCitation \/ Clear

SpecCite == InitCite /\ [][NextCite]_vars

(***************************************************************************)
(* Specification of format_citation: one call on any chunk                 *)
(***************************************************************************)
InitFormat ==
    /\ IdleExcept("format")
    /\ fmt_in \in FormatChunks
    /\ fmt_out = None

FormatCitation ==
    /\ fmt_out = None
    /\ fmt_out' = Some(format_citation(fmt_in))
    /\ UNCHANGED <<citeVars, fmt_in, splitVars, examVars, mapVars, covVars,
                 renderVars, buildVars, callVars, ingestVars>>

NextFormat == FormatCitation

SpecFormat == InitFormat /\ [][NextFormat]_vars


(***************************************************************************)
(* C7: after any sequence of add_citation and clear calls the counter, the *)
(* citation count and the list length agree, the stored ids are cite_1 ..  *)
(* cite_n in insertion order and pairwise distinct, the id add_citation    *)
(* returned is found by get_citation_by_id as the record just added, and   *)
(* clear leaves no citation and counter 0, so the add after it returns     *)
(* cite_1.                                                                 *)
(***************************************************************************)
C7_StateOk ==
    /\ citation_counter = get_citation_count(citations)
    /\ get_citation_count(citations) = Len(citations)
    /\ \A i \in 1..Len(citations) : citations[i].id = "cite_" \o ToString(i)
    /\ \A i, j \in 1..Len(citations) :
           citations[i].id = citations[j].id => i = j
    /\ mgr_ret.op = "add" =>
           /\ citations # <<>>
           /\ get_citation_by_id(citations, mgr_ret.id)
                  = Some(citations[Len(citations)])
           /\ LET c == citations[Len(citations)]
              IN  <<c.type, c.source_id, c.content, c.metadata>> = mgr_ret.args
    /\ mgr_ret.op = "clear" =>
           /\ get_citation_count(citations) = 0
           /\ citation_counter = 0

C7_AddAfterClear ==
    (mgr_ret.op = "clear" /\ mgr_ret'.op = "add") => mgr_ret'.id = "cite_1"

C7_ManagerConsistent == [](C7_StateOk) /\ [][C7_AddAfterClear]_vars

\* an add_citation that followed other adds has returned
C7_Witness == mgr_ret.op = "add" /\ Len(citations) >= 2

(***************************************************************************)
(* C8: format_citation labels a chunk by its source: transcript or asr     *)
(* with a start that is not None (0 included) gives "[vid HH:MM:SS]", the  *)
(* timecode of the whole seconds of start; without start "[vid]"; slides   *)
(* "[slide N]" with N the slide number or "?"; exam "[exam Q]" with Q the  *)
(* question id or "?"; any other source "[<source>]", "[unknown]" when the *)
(* chunk has no source.                                                    *)
(***************************************************************************)
\* HH:MM:SS of a whole number of seconds
WholeTimecode(w) ==
    Pad2(w \div 3600) \o ":" \o Pad2((w \div 60) % 60) \o ":" \o Pad2(w % 60)

C8_ExpectedLabel(c) ==
    IF "source" \notin DOMAIN c THEN "[unknown]"
    ELSE IF c["source"] \in {"transcript", "asr"}
    THEN IF "start" \in DOMAIN c /\ c["start"] # None
         THEN "[vid " \o WholeTimecode(c["start"][1] \div TicksPerSecond) \o "]"
         ELSE "[vid]"
    ELSE IF c["source"] = "slides"
    THEN IF "slide_number" \in DOMAIN c
         THEN "[slide " \o ToString(c["slide_number"]) \o "]"
         ELSE "[slide ?]"
    ELSE IF c["source"] = "exam"
    THEN IF "question_id" \in DOMAIN c
         THEN "[exam " \o c["question_id"] \o "]"
         ELSE "[exam ?]"
    ELSE "[" \o c["source"] \o "]"

C8_FormatCitationLabel ==
    fmt_out # None => fmt_out[1] = C8_ExpectedLabel(fmt_in)

\* a transcript chunk that starts at 0 got its timecode
C8_Witness ==
    /\ fmt_out = Some("[vid 00:00:00]")
    /\ Get(fmt_in, "source", "unknown") = "transcript"
    /\ Get(fmt_in, "start", None) = Some(0)


(***************************************************************************)
(* Specification of split_into_chunks: one call on any list of segments    *)
(***************************************************************************)
RECURSIVE SeqsUpTo(_, _)
SeqsUpTo(S, n) ==
    IF n = 0 THEN {<<>>}
    ELSE LET shorter == SeqsUpTo(S, n - 1)
         IN  shorter \cup {Append(q, x) : q \in shorter, x \in S}

SplitTexts == SeqsUpTo({"a", " "}, MaxTextLen)

\* segments with a text, and one record without a text field
SplitSegments ==
    {[source |-> "test", text |-> t] : t \in SplitTexts}
        \cup {[source |-> "slides", slide_number |-> 1]}

InitSplit ==
    /\ IdleExcept("split")
    /\ \E segments \in SeqsUpTo(SplitSegments, MaxSegments) :
       \E max_chunk_size \in 1..MaxChunkSize :
           split_in = [segments |-> segments, max_chunk_size |-> max_chunk_size]
    /\ split_out = None

SplitIntoChunks ==
    /\ split_out = None
    /\ split_out' = Some(split_into_chunks(split_in.segments,
                                           split_in.max_chunk_size))
    /\ UNCHANGED <<citeVars, fmtVars, split_in, examVars, mapVars, covVars,
                 renderVars, buildVars, callVars, ingestVars>>

NextSplit == SplitIntoChunks

SpecSplit == InitSplit /\ [][NextSplit]_vars

(***************************************************************************)
(* C9: every chunk split_into_chunks generated by splitting (is_split =    *)
(* True) has a text of at most max_chunk_size characters.                  *)
(***************************************************************************)
C9_SplitChunksWithinLimit ==
    split_out # None =>
        \A i \in 1..Len(split_out[1]) :
            LET chunk == split_out[1][i]
            IN  ("is_split" \in DOMAIN chunk /\ chunk["is_split"])
                    => Len(chunk["text"]) <= split_in.max_chunk_size


(***************************************************************************)
(* Specification of parse_exam_structure: one call on any exam text        *)
(***************************************************************************)
ExamLines ==
    { <<>>,
      <<"S", "e", "c", "t", "i", "o", "n", " ", "B">>,
      <<"1", ".", " ", "Q", " ", "[", "5", "]">>,
      <<"Q", "u", "e", "s", "t", "i", "o", "n", " ", "2", ")">>,
      <<"a", ")", " ", "x">>,
      <<" ", "(", "i", "i", ")", " ", "(", "3", " ", "m", "a", "r", "k", "s", ")">>,
      <<"m", "o", "r", "e">> }

\* '\n'.join(lines)
RECURSIVE join_lines(_)
join_lines(lines) ==
    IF lines = <<>> THEN <<>>
    ELSE IF Len(lines) = 1 THEN lines[1]
    ELSE lines[1] \o <<"\n">> \o join_lines(Tail(lines))

ExamTexts == {join_lines(lines) : lines \in SeqsUpTo(ExamLines, MaxLines)}

InitExam ==
    /\ IdleExcept("exam")
    /\ exam_text \in ExamTexts
    /\ exam_out = None

ParseExamStructure ==
    /\ exam_out = None
    /\ exam_out' = Some(parse_exam_structure(exam_text))
    /\ UNCHANGED <<citeVars, fmtVars, splitVars, exam_text, mapVars, covVars,
                 renderVars, buildVars, callVars, ingestVars>>

NextExam == ParseExamStructure

SpecExam == InitExam /\ [][NextExam]_vars


(***************************************************************************)
(* C10: every line recognized as a part marker while a question is open is *)
(* an entry of that question's parts list, with its continuation text, in  *)
(* order of appearance, for every question of the paper.                   *)
(***************************************************************************)
\* the elements of a finite set of integers, ascending
RECURSIVE Ascending(_)
Ascending(S) ==
    IF S = {} THEN <<>>
    ELSE LET m == CHOOSE x \in S : \A y \in S : x <= y
         IN  <<m>> \o Ascending(S \ {m})

\* the stripped, non-empty lines of the paper
PaperLines(text) ==
    LET raw == split_lines(text, <<>>, <<>>)
        stripped == [i \in DOMAIN raw |-> str_strip(raw[i])]
    IN  SelectSeq(stripped, LAMBDA l : l # <<>>)

LineKind(line) ==
    IF section_match(line) # None THEN "section"
    ELSE IF question_match(line) # None THEN "question"
    ELSE IF part_match(line) # None THEN "part"
    ELSE "text"

\* the first index after i of a line of one of the kinds, Len + 1 if none
NextOfKind(lines, i, kinds) ==
    LET later == {j \in (i + 1)..Len(lines) : LineKind(lines[j]) \in kinds}
    IN  IF later = {} THEN Len(lines) + 1
        ELSE CHOOSE j \in later : \A k \in later : j <= k

\* a part line with the text lines that continue it
RECURSIVE WithContinuation(_, _, _)
WithContinuation(lines, from, to) ==
    IF from > to THEN <<>>
    ELSE (IF LineKind(lines[from]) = "text" THEN <<" ">> \o lines[from] ELSE <<>>)
         \o WithContinuation(lines, from + 1, to)

PartText(lines, p) ==
    lines[p] \o WithContinuation(lines, p + 1,
                                 NextOfKind(lines, p, {"part", "question"}) - 1)

\* the part lines of the question opened at line q, in order
PartLinesOf(lines, q) ==
    Ascending({p \in (q + 1)..(NextOfKind(lines, q, {"question"}) - 1) :
                  LineKind(lines[p]) = "part"})

C10_AllPartsKept ==
    exam_out # None =>
        LET lines == PaperLines(exam_text)
            qs == Ascending({q \in 1..Len(lines) : LineKind(lines[q]) = "question"})
        IN  /\ Len(exam_out[1]) = Len(qs)
            /\ \A k \in 1..Len(qs) :
                   LET ps == PartLinesOf(lines, qs[k])
                       parts == exam_out[1][k].parts
                   IN  /\ Len(parts) = Len(ps)
                       /\ \A i \in 1..Len(ps) :
                              parts[i].text = PartText(lines, ps[i])

(***************************************************************************)
(* Specification of map_chunks_to_topics: one call on any topics of a      *)
(* topics file, normalized by load_topics, and any similarity matrix       *)
(***************************************************************************)
\* topics as a topics file gives them: one without an id, one with every
\* field, one with a fractional weight
TopicsList ==
    << [name |-> <<"T", " ", "1">>],
       [id |-> <<"t", "_", "1">>, name |-> <<"U">>, weight |-> RatInt(2),
        keywords |-> << <<"k">> >>],
       [id |-> <<"c">>, name |-> <<"C">>, weight |-> Rat(1, 2)] >>

TopicsData == Range(TopicsList)

LoadedTopics ==
    {load_topics(topics_data) : topics_data \in SeqsUpTo(TopicsData, MaxTopics)}

\* the default of map_chunks_to_topics' threshold, 0.3, in tenths
DefaultThreshold == 3

\* cosine similarities, in tenths: below, at and above the threshold
Scores == {DefaultThreshold - 1, DefaultThreshold, DefaultThreshold + 1}

\* the lists of exactly n elements of S
SeqsOf(S, n) == {q \in SeqsUpTo(S, n) : Len(q) = n}

InitMap ==
    /\ IdleExcept("map")
    /\ \E topics \in LoadedTopics :
       \E n \in 0..MaxChunks :
       \E similarities \in SeqsOf(SeqsOf(Scores, Len(topics)), n) :
           map_in = [topics |-> topics, similarities |-> similarities,
                     threshold |-> DefaultThreshold]
    /\ map_out = None

MapChunksToTopics ==
    /\ map_out = None
    /\ map_out' = Some(map_chunks_to_topics(map_in.topics, map_in.similarities,
                                            map_in.threshold))
    /\ UNCHANGED <<citeVars, fmtVars, splitVars, examVars, map_in, covVars,
                 renderVars, buildVars, callVars, ingestVars>>

NextMap == MapChunksToTopics

SpecMap == InitMap /\ [][NextMap]_vars

(***************************************************************************)
(* C4: map_chunks_to_topics returns a mapping with one key per topic id,   *)
(* present even when no chunk is assigned, in which chunk index i is       *)
(* listed under topic t if and only if the similarity of chunk i and topic *)
(* t is greater than or equal to the threshold.                            *)
(***************************************************************************)
C4_MappingIsThresholdRelation ==
    map_out # None =>
        LET topics == map_in.topics
            similarities == map_in.similarities
            mapping == map_out[1]
        IN  /\ DOMAIN mapping = {topics[t].id : t \in DOMAIN topics}
            /\ \A t \in DOMAIN topics :
               \A i \in DOMAIN similarities :
                   (i - 1 \in Range(mapping[topics[t].id]))
                       <=> similarities[i][t] >= map_in.threshold

(***************************************************************************)
(* Specification of calculate_coverage: one call on any mapping, topics    *)
(* and total                                                               *)
(***************************************************************************)
\* topics as load_topics returns them and as a caller writes them by hand,
\* without a weight
CoverageTopics ==
    LoadedTopics \cup
    { << [id |-> <<"c">>, name |-> <<"C">>] >>,
      << [id |-> <<"c">>, name |-> <<"C">>],
         [id |-> <<"d">>, name |-> <<"D">>, weight |-> RatInt(2)] >> }

TopicIds == { <<"t", "_", "1">>, <<"c">>, <<"d">> }

\* [0, 1, .., k - 1]
FirstIndices(k) == [i \in 1..k |-> i - 1]

\* mappings of some of the topic ids to lists of chunk indices
CoverageMappings ==
    UNION {[ids -> {FirstIndices(k) : k \in 0..MaxMapped}] : ids \in SUBSET TopicIds}

InitCoverage ==
    /\ IdleExcept("coverage")
    /\ \E topic_mapping \in CoverageMappings :
       \E topics \in CoverageTopics :
       \E total_chunks \in (0 - 1)..MaxMapped :
           cov_in = [topic_mapping |-> topic_mapping, topics |-> topics,
                     total_chunks |-> total_chunks]
    /\ cov_out = None

CalculateCoverage ==
    /\ cov_out = None
    /\ cov_out' = Some(calculate_coverage(cov_in.topic_mapping, cov_in.topics,
                                          cov_in.total_chunks))
    /\ UNCHANGED <<citeVars, fmtVars, splitVars, examVars, mapVars, cov_in,
                 renderVars, buildVars, callVars, ingestVars>>

NextCoverage == CalculateCoverage

SpecCoverage == InitCoverage /\ [][NextCoverage]_vars

(***************************************************************************)
(* C6: calculate_coverage returns one record per topic, in topic order,    *)
(* with chunk_count the number of chunk indices mapped to the topic's id   *)
(* (0 when the id is absent from the mapping), coverage_percentage =       *)
(* chunk_count / total_chunks * 100, coverage_percentage = 0 whenever      *)
(* total_chunks <= 0, and weighted_coverage = coverage_percentage * weight *)
(* with weight defaulting to 1.                                            *)
(***************************************************************************)
\* the fraction x equals p / q (q > 0)
RatIs(x, p, q) == x.d > 0 /\ x.n * q = p * x.d

C6_RecordOk(r, topic, topic_mapping, total_chunks) ==
    LET count == IF topic.id \in DOMAIN topic_mapping
                 THEN Len(topic_mapping[topic.id]) ELSE 0
        wn == IF "weight" \in DOMAIN topic THEN topic.weight.n ELSE 1
        wd == IF "weight" \in DOMAIN topic THEN topic.weight.d ELSE 1
    IN  /\ r.topic_id = topic.id
        /\ r.name = topic.name
        /\ r.chunk_count = count
        /\ IF total_chunks <= 0
           THEN r.coverage_percentage.n = 0
           ELSE RatIs(r.coverage_percentage, count * 100, total_chunks)
        /\ RatIs(r.weight, wn, wd)
        /\ RatIs(r.weighted_coverage, r.coverage_percentage.n * wn,
                 r.coverage_percentage.d * wd)

C6_CoverageRecords ==
    cov_out # None =>
        /\ Len(cov_out[1]) = Len(cov_in.topics)
        /\ \A i \in DOMAIN cov_in.topics :
               C6_RecordOk(cov_out[1][i], cov_in.topics[i],
                           cov_in.topic_mapping, cov_in.total_chunks)

\* a topic without a weight got one chunk of three: a percentage that is
\* not a whole number, weighted by the default
C6_Witness ==
    /\ cov_out # None
    /\ cov_in.total_chunks = 3
    /\ \E i \in DOMAIN cov_in.topics :
           /\ "weight" \notin DOMAIN cov_in.topics[i]
           /\ cov_out[1][i].chunk_count = 1
           /\ cov_out[1][i].weighted_coverage = Rat(100, 3)

(***************************************************************************)
(* Specification of render_markdown_document: one call on any list of      *)
(* sections                                                                *)
(***************************************************************************)
\* sections as build_pipeline makes them, with some of the generated texts
\* empty, and sections as a caller writes them by hand, with keys missing
RenderSections ==
    {[topic |-> <<"T", " ", "1">>] @@ d @@ v @@ r @@ c :
        d \in Field("definition", {"", "Def"}),
        v \in Field("derivation", {"Der"}),
        r \in Field("revision", {"Rev"}),
        c \in Field("citations", {"", "[slide 1]"})}
    \cup
    { [definition |-> "Def", citations |-> "[vid 00:01:00]"],
      [topic |-> <<"U">>, definition |-> "Def", key_formulas |-> "Key",
       derivation |-> "Der", examples |-> "Exa", mistakes |-> "Mis",
       revision |-> "Rev", citations |-> "[exam Q1]"] }

InitRender ==
    /\ IdleExcept("render")
    /\ \E sections \in SeqsUpTo(RenderSections, MaxSections) :
           render_in = [sections |-> sections, session_id |-> "test_session",
                        now |-> "2024-01-01 00:00:00"]
    /\ render_out = None

RenderMarkdownDocument ==
    /\ render_out = None
    /\ render_out' = Some(render_markdown_document(render_in.sections,
                              render_in.session_id, render_in.now))
    /\ UNCHANGED <<citeVars, fmtVars, splitVars, examVars, mapVars, covVars,
                   render_in, buildVars, callVars, ingestVars>>

NextRender == RenderMarkdownDocument

SpecRender == InitRender /\ [][NextRender]_vars

(***************************************************************************)
(* C3: for every section passed to render_markdown_document whose          *)
(* citations string is non-empty, the rendered Markdown contains that      *)
(* citations string, whichever of the section's subsections are non-empty. *)
(***************************************************************************)
\* the document has the text as one of the pieces of one of its lines
HasPiece(document, text) ==
    \E l \in DOMAIN document : \E k \in DOMAIN document[l] : document[l][k] = text

C3_CitationsRendered ==
    render_out # None =>
        \A i \in DOMAIN render_in.sections :
            LET cited == Get(render_in.sections[i], "citations", "")
            IN  cited # "" => HasPiece(render_out[1], cited)

(***************************************************************************)
(* Specification of build_pipeline: one run over any cache, topics file    *)
(* and top_k; the embedding model, the index, the LLM server and the PDF   *)
(* compiler answer in any way they can                                     *)
(***************************************************************************)
\* records as ingestion caches them: a transcript segment and two slides
\* (slide records have no text field)
CachedTranscript ==
    << [source |-> "transcript", type |-> "vtt", start |-> Some(0),
        text |-> <<"a">>] >>
CachedSlides ==
    << [source |-> "slides", type |-> "pptx", slide_number |-> 1],
       [source |-> "slides", type |-> "pptx", slide_number |-> 2] >>

Prefixes(q) == {SubSeq(q, 1, k) : k \in 0..Len(q)}

BuildSession == "session"

CacheNames == {"_transcript.jsonl", "_slides.jsonl", "_exam.jsonl"}

CachedRecords ==
    ("_transcript.jsonl" :> CachedTranscript) @@ ("_slides.jsonl" :> CachedSlides)
    @@ ("_exam.jsonl" :> <<>>)

\* the cache files that hold the given lists
cache_files(content) ==
    [path \in {cache_path(BuildSession, name) : name \in DOMAIN content} |->
        content[path[2]]]

\* the cache of a session: each file is absent or holds the first records of
\* its kind; files without a record are tried with each other only
BuildCaches ==
    {cache_files(c) : c \in
        {c \in UNION {[S -> UNION {Prefixes(CachedRecords[n]) : n \in CacheNames}] :
                         S \in SUBSET CacheNames} :
            /\ \A n \in DOMAIN c : c[n] \in Prefixes(CachedRecords[n])
            /\ Len(Get(c, "_transcript.jsonl", <<>>)) + Len(Get(c, "_slides.jsonl", <<>>))
                   + Len(Get(c, "_exam.jsonl", <<>>)) <= MaxCached
            /\ \/ \A n \in DOMAIN c : c[n] # <<>>
               \/ \A n \in DOMAIN c : c[n] = <<>>}}

\* no topics file, or a topics file with some of the topics, in their order
BuildTopicsFiles ==
    {None} \cup
    {Some([k \in 1..Cardinality(I) |-> TopicsList[Ascending(I)[k]]]) :
        I \in {J \in SUBSET DOMAIN TopicsList : Cardinality(J) <= MaxTopics}}

\* cosine similarities of the pipeline, in tenths: below and at the threshold
BuildScores == {DefaultThreshold - 1, DefaultThreshold}

\* build_pipeline never reads a distance: the answers of the index are tried
\* with all distances equal, which leaves every order of the chunks possible
BuildDistances == {0}

CompileOutcomes == {"compiled", "failed", "unavailable"}

InitBuild ==
    /\ IdleExcept("build")
    /\ build_pc = "start"
    /\ \E cache \in BuildCaches, topics_file \in BuildTopicsFiles, top_k \in 1..MaxTopK :
           build_env = [session_id |-> BuildSession, cache |-> cache,
                        topics_file |-> topics_file, top_k |-> top_k]
    /\ build_chunks = <<>>
    /\ build_topics = <<>>
    /\ build_mapping = <<>>
    /\ build_coverage = <<>>
    /\ build_idx = 0
    /\ build_context = <<>>
    /\ build_sections = <<>>
    /\ build_log = <<>>
    /\ build_files = <<>>
    /\ build_result = None

\* lines 99-134: load the cache, raise if it is empty, split, embed, index,
\* save the index
BuildIndex ==
    /\ build_pc = "start"
    /\ \E data \in {load_processed_data(build_env.session_id, build_env.cache)} :
       \E all_chunks \in {data["transcript"] \o data["slides"] \o data["exam"]} :
           IF no_chunks(all_chunks)
           THEN /\ build_pc' = "raised"
                /\ build_result' = Some(Raised("ValueError"))
                /\ UNCHANGED <<build_chunks, build_files>>
           ELSE \E chunks \in {split_into_chunks(all_chunks, PipelineChunkSize)} :
                    /\ build_pc' = "topics"
                    /\ build_chunks' = chunks
                    /\ build_files' = [index |-> chunk_texts(chunks), metadata |-> chunks]
                    /\ UNCHANGED build_result
    /\ UNCHANGED <<build_env, build_topics, build_mapping, build_coverage, build_idx,
                   build_context, build_sections, build_log>>
    /\ UNCHANGED <<citeVars, fmtVars, splitVars, examVars, mapVars, covVars,
                   renderVars, callVars, ingestVars>>

\* lines 136-165: load the topics, embed them, map the chunks to them,
\* compute the coverage, make the citation manager
BuildTopics ==
    /\ build_pc = "topics"
    /\ \E topics \in {IF build_env.topics_file = None THEN default_topics
                      ELSE load_topics(build_env.topics_file[1])} :
       \E texts \in {chunk_texts(build_chunks)} :
       \E score \in [Range(texts) \X {topic_text(topics[t]) : t \in DOMAIN topics}
                        -> BuildScores] :
       \E similarities \in {[i \in DOMAIN texts |-> [t \in DOMAIN topics |->
                                score[<<texts[i], topic_text(topics[t])>>]]]} :
       \E topic_mapping \in {map_chunks_to_topics(topics, similarities,
                                                  DefaultThreshold)} :
           /\ build_topics' = topics
           /\ build_mapping' = topic_mapping
           /\ build_coverage' = calculate_coverage(topic_mapping, topics,
                                                   Len(build_chunks))
    /\ citations' = <<>>
    /\ citation_counter' = 0
    /\ build_sections' = <<>>
    /\ build_log' = <<>>
    /\ build_idx' = 0
    /\ build_pc' = "loop"
    /\ UNCHANGED <<build_env, build_chunks, build_context, build_files, build_result>>
    /\ UNCHANGED <<mgr_ret, fmtVars, splitVars, examVars, mapVars, covVars, renderVars,
                   callVars, ingestVars>>

\* lines 167-252: one iteration of the loop over the topics
BuildTopic ==
    /\ build_pc = "loop"
    /\ build_idx < Len(build_topics)
    /\ \E answer \in index_search(chunk_texts(build_chunks), build_env.top_k,
                                  BuildDistances) :
       \E context_chunks \in {retrieve_context_for_topic(answer, build_chunks)} :
           /\ build_context' = context_chunks
           /\ IF context_chunks = <<>>
              THEN UNCHANGED <<build_sections, build_log>>
              ELSE \E ok \in [Range(LLMCalls) -> BOOLEAN] :
                       /\ build_sections' = Append(build_sections,
                              section_content(build_topics[build_idx + 1],
                                              context_chunks, ok))
                       /\ build_log' = Append(build_log,
                              {call \in Range(LLMCalls) : ~ok[call]})
    /\ build_idx' = build_idx + 1
    /\ UNCHANGED <<build_pc, build_env, build_chunks, build_topics, build_mapping,
                   build_coverage, build_files, build_result>>
    /\ UNCHANGED <<citeVars, fmtVars, splitVars, examVars, mapVars, covVars,
                   renderVars, callVars, ingestVars>>

\* lines 254-287: render and write the notes, compile the PDF, export the
\* citations and the coverage, return
BuildFinish ==
    /\ build_pc = "loop"
    /\ build_idx = Len(build_topics)
    /\ \E outcome \in CompileOutcomes :
           build_files' =
               [f \in compiled_files(outcome) |-> f]
               @@ [notes |-> render_markdown_document(build_sections, build_env.session_id,
                                                      "2024-01-01 00:00:00"),
                   citations |-> export_citations(citations),
                   coverage |-> build_coverage]
               @@ build_files
    /\ build_result' = Some(build_return(build_sections, citations))
    /\ build_pc' = "done"
    /\ UNCHANGED <<build_env, build_chunks, build_topics, build_mapping,
                   build_coverage, build_idx, build_context, build_sections,
                   build_log>>
    /\ UNCHANGED <<citeVars, fmtVars, splitVars, examVars, mapVars, covVars,
                   renderVars, callVars, ingestVars>>

NextBuild == BuildIndex \/ BuildTopics \/ BuildTopic \/ BuildFinish

SpecBuild == InitBuild /\ [][NextBuild]_vars


(***************************************************************************)
(* C1: build_pipeline records provenance in the citation manager: a run    *)
(* that produced a topic section with a non-empty citations string ends    *)
(* with a non-empty exported citation list and total_citations > 0.        *)
(***************************************************************************)
C1_ProvenanceRecorded ==
    (/\ build_pc = "done"
     /\ \E i \in DOMAIN build_sections : build_sections[i].citations # "")
        => /\ build_files["citations"] # <<>>
           /\ build_result[1].total_citations > 0

(***************************************************************************)
(* C2: the context chunks build_pipeline hands to prompt rendering and     *)
(* citation formatting for a topic contain no two chunks with identical    *)
(* text and are ordered by the source-diversity interleave.                *)
(***************************************************************************)
C2_ContextDistinctAndInterleaved ==
    (build_pc \in {"loop", "done"} /\ build_idx > 0)
        => /\ \A i, j \in DOMAIN build_context :
                  Get(build_context[i], "text", <<>>)
                      = Get(build_context[j], "text", <<>>) => i = j
           /\ deduplicate_chunks(build_context) = build_context
           /\ rank_by_source_diversity(build_context, TRUE) = build_context

(***************************************************************************)
(* C5: in the build pipeline every record of the coverage data has         *)
(* chunk_count <= len(chunks), so that coverage_percentage lies between 0  *)
(* and 100 for every topic.                                                *)
(***************************************************************************)
C5_CoverageWithinBounds ==
    build_pc \in {"loop", "done"}
        => \A i \in DOMAIN build_coverage :
               /\ build_coverage[i].chunk_count <= Len(build_chunks)
               /\ RatLeq(RatInt(0), build_coverage[i].coverage_percentage)
               /\ RatLeq(build_coverage[i].coverage_percentage, RatInt(100))

(***************************************************************************)
(* Specification of a session: ingest_pipeline on any manifest over the    *)
(* input files on disk, then the start of build_pipeline for the session   *)
(* on the cache that ingestion left                                        *)
(***************************************************************************)
\* the input files on disk, with what the library that opens them delivers
InputFiles ==
    (Path("lecture", ".mp4") :> "video")
    @@ (Path("talk", ".vtt") :>
            << [start |-> 2 * TicksPerSecond, end |-> 3 * TicksPerSecond,
                lines |-> << <<"b">> >>],
               [start |-> 0, end |-> TicksPerSecond, lines |-> << <<"a">> >>],
               [start |-> 4 * TicksPerSecond, end |-> 5 * TicksPerSecond,
                lines |-> <<>>] >>)
    @@ (Path("empty", ".vtt") :>
            << [start |-> 0, end |-> TicksPerSecond, lines |-> <<>>] >>)
    @@ (Path("notes", ".txt") :> << <<"c", " ">>, <<" ">> >>)
    @@ (Path("deck", ".pptx") :>
            << [title |-> Some(<<"T">>), texts |-> << <<"T">>, <<"b", " ">> >>,
                notes |-> None, pictures |-> 1] >>)
    @@ (Path("deck", ".pdf") :>
            << [lines |-> << <<"T">>, <<"b">>, <<" ">> >>, images |-> <<>>] >>)
    @@ (Path("deck", ".key") :> "keynote")
    @@ (Path("exam", ".pdf") :> << <<"1", ".", " ", "Q", " ", "[", "5", "]">> >>)

\* a path of the manifest that names no file
MissingPath == Path("missing", ".vtt")

\* what a manifest can say of an input: nothing, the empty string, a path
InputValues(stems) ==
    {Path("", ""), MissingPath} \cup {path \in DOMAIN InputFiles : path.stem \in stems}

ManifestInputs ==
    {v @@ t @@ s @@ e :
        v \in Field("video", InputValues({"lecture"})),
        t \in Field("transcript", InputValues({"talk", "empty", "notes"})),
        s \in Field("slides", InputValues({"deck"})),
        e \in Field("exam", InputValues({"exam"}))}

Manifests ==
    {[session_id |-> "session", inputs |-> PyDict(inputs)] : inputs \in ManifestInputs}
    \cup {[session_id |-> "session"], [inputs |-> PyDict(<<>>)],
          [session_id |-> "session", inputs |-> PyList(<<>>)]}

InitIngest ==
    /\ IdleExcept("session")
    /\ BuildIdle
    /\ ingest_pc = "start"
    /\ ingest_manifest \in Manifests
    /\ ingest_cache = [exists |-> FALSE, files |-> <<>>]
    /\ ingest_result = None
    /\ ingest_log = {}

\* lines 101-113: validate the manifest, make the cache directory
IngestValidate ==
    /\ ingest_pc = "start"
    /\ IF "raised" \in DOMAIN validate_manifest(ingest_manifest)
       THEN /\ ingest_pc' = "raised"
            /\ ingest_result' = validate_manifest(ingest_manifest)
            /\ UNCHANGED ingest_cache
       ELSE /\ ingest_pc' = "video"
            /\ ingest_cache' = [ingest_cache EXCEPT !.exists = TRUE]
            /\ ingest_result' = [session_id |-> ingest_manifest["session_id"],
                                 processed_files |-> <<>>]
    /\ UNCHANGED <<ingest_manifest, ingest_log>>
    /\ UNCHANGED <<citeVars, fmtVars, splitVars, examVars, mapVars, covVars,
                   renderVars, buildVars, callVars>>

\* lines 115-123: extract the audio of the video
IngestVideo ==
    /\ ingest_pc = "video"
    /\ \E inputs \in {ingest_manifest["inputs"].items} :
       \E audio_path \in {cache_path(ingest_manifest["session_id"], "_audio.wav")} :
           IF ~input_given(inputs, "video")
           THEN /\ ingest_pc' = "transcript"
                /\ UNCHANGED <<ingest_cache, ingest_result, ingest_log>>
           ELSE IF inputs["video"] \notin DOMAIN InputFiles
           THEN /\ ingest_pc' = "transcript"
                /\ ingest_log' = ingest_log \cup {"video"}
                /\ UNCHANGED <<ingest_cache, ingest_result>>
           ELSE \/ /\ ingest_pc' = "transcript"
                   /\ ingest_cache' =
                          [ingest_cache EXCEPT
                              !.files = write_file(@, audio_path, "wav")]
                   /\ ingest_result' = processed(ingest_result, "audio", audio_path)
                   /\ UNCHANGED ingest_log
                \/ /\ ingest_pc' = "raised"
                   /\ ingest_result' = Raised("ffmpeg.Error")
                   /\ UNCHANGED <<ingest_cache, ingest_log>>
    /\ UNCHANGED ingest_manifest
    /\ UNCHANGED <<citeVars, fmtVars, splitVars, examVars, mapVars, covVars,
                   renderVars, buildVars, callVars>>

\* lines 125-136: normalize the transcript
IngestTranscript ==
    /\ ingest_pc = "transcript"
    /\ \E inputs \in {ingest_manifest["inputs"].items} :
       \E output_path \in {cache_path(ingest_manifest["session_id"],
                                      "_transcript.jsonl")} :
           IF ~input_given(inputs, "transcript")
           THEN UNCHANGED <<ingest_cache, ingest_result, ingest_log>>
           ELSE IF inputs["transcript"] \notin DOMAIN InputFiles
           THEN /\ ingest_log' = ingest_log \cup {"transcript"}
                /\ UNCHANGED <<ingest_cache, ingest_result>>
           ELSE \E normalized \in {normalize_transcript(inputs["transcript"],
                                       InputFiles[inputs["transcript"]])} :
                    /\ ingest_cache' =
                           [ingest_cache EXCEPT
                               !.files = write_file(@, output_path, normalized)]
                    /\ ingest_result' =
                           processed(ingest_result, "transcript", output_path)
                    /\ UNCHANGED ingest_log
    /\ ingest_pc' = "slides"
    /\ UNCHANGED ingest_manifest
    /\ UNCHANGED <<citeVars, fmtVars, splitVars, examVars, mapVars, covVars,
                   renderVars, buildVars, callVars>>

\* lines 138-149: parse the slides
IngestSlides ==
    /\ ingest_pc = "slides"
    /\ \E inputs \in {ingest_manifest["inputs"].items} :
       \E output_path \in {cache_path(ingest_manifest["session_id"],
                                      "_slides.jsonl")} :
           IF ~input_given(inputs, "slides")
           THEN /\ ingest_pc' = "exam"
                /\ UNCHANGED <<ingest_cache, ingest_result, ingest_log>>
           ELSE IF inputs["slides"] \notin DOMAIN InputFiles
           THEN /\ ingest_pc' = "exam"
                /\ ingest_log' = ingest_log \cup {"slides"}
                /\ UNCHANGED <<ingest_cache, ingest_result>>
           ELSE \E slides_data \in {parse_slides(inputs["slides"],
                                                 InputFiles[inputs["slides"]])} :
                    IF "raised" \in DOMAIN slides_data
                    THEN /\ ingest_pc' = "raised"
                         /\ ingest_result' = slides_data
                         /\ UNCHANGED <<ingest_cache, ingest_log>>
                    ELSE /\ ingest_pc' = "exam"
                         /\ ingest_cache' =
                                [ingest_cache EXCEPT
                                    !.files = write_file(@, output_path,
                                                         slides_data.returned)]
                         /\ ingest_result' =
                                processed(ingest_result, "slides", output_path)
                         /\ UNCHANGED ingest_log
    /\ UNCHANGED ingest_manifest
    /\ UNCHANGED <<citeVars, fmtVars, splitVars, examVars, mapVars, covVars,
                   renderVars, buildVars, callVars>>

\* lines 151-162: parse the exam paper
IngestExam ==
    /\ ingest_pc = "exam"
    /\ \E inputs \in {ingest_manifest["inputs"].items} :
       \E output_path \in {cache_path(ingest_manifest["session_id"],
                                      "_exam.jsonl")} :
           IF ~input_given(inputs, "exam")
           THEN UNCHANGED <<ingest_cache, ingest_result, ingest_log>>
           ELSE IF inputs["exam"] \notin DOMAIN InputFiles
           THEN /\ ingest_log' = ingest_log \cup {"exam"}
                /\ UNCHANGED <<ingest_cache, ingest_result>>
           ELSE \E exam_data \in {parse_exam(InputFiles[inputs["exam"]])} :
                    /\ ingest_cache' =
                           [ingest_cache EXCEPT
                               !.files = write_file(@, output_path, exam_data)]
                    /\ ingest_result' = processed(ingest_result, "exam", output_path)
                    /\ UNCHANGED ingest_log
    /\ ingest_pc' = "manifest"
    /\ UNCHANGED ingest_manifest
    /\ UNCHANGED <<citeVars, fmtVars, splitVars, examVars, mapVars, covVars,
                   renderVars, buildVars, callVars>>

\* lines 164-170: write the normalized manifest, return
IngestManifest ==
    /\ ingest_pc = "manifest"
    /\ \E normalized_manifest_path \in
           {cache_path(ingest_manifest["session_id"], "_manifest.json")} :
           /\ ingest_cache' =
                  [ingest_cache EXCEPT
                      !.files = write_file(@, normalized_manifest_path,
                                           ingest_result)]
           /\ ingest_result' =
                  ("normalized_manifest" :> normalized_manifest_path) @@ ingest_result
    /\ ingest_pc' = "done"
    /\ UNCHANGED <<ingest_manifest, ingest_log>>
    /\ UNCHANGED <<citeVars, fmtVars, splitVars, examVars, mapVars, covVars,
                   renderVars, buildVars, callVars>>

\* build_pipeline is called for the session that was ingested, without a
\* topics file and with top_k = 1
SessionBuild ==
    /\ ingest_pc = "done"
    /\ build_pc = "idle"
    /\ build_pc' = "start"
    /\ build_env' = [session_id |-> ingest_manifest["session_id"],
                     cache |-> ingest_cache.files, topics_file |-> None, top_k |-> 1]
    /\ UNCHANGED <<build_chunks, build_topics, build_mapping, build_coverage,
                   build_idx, build_context, build_sections, build_log, build_files,
                   build_result>>
    /\ UNCHANGED <<citeVars, fmtVars, splitVars, examVars, mapVars, covVars,
                   renderVars, callVars, ingestVars>>

NextIngest ==
    \/ IngestValidate \/ IngestVideo \/ IngestTranscript \/ IngestSlides
    \/ IngestExam \/ IngestManifest \/ SessionBuild \/ BuildIndex

SpecIngest == InitIngest /\ [][NextIngest]_vars

\* the manifest names a video that exists and nothing else
OnlyVideo ==
    /\ "inputs" \in DOMAIN ingest_manifest
    /\ is_dict(ingest_manifest["inputs"])
    /\ DOMAIN ingest_manifest["inputs"].items = {"video"}
    /\ ingest_manifest["inputs"].items["video"] \in DOMAIN InputFiles

(***************************************************************************)
(* C11: ingestion transcribes video input: after ingest_pipeline succeeded *)
(* on a manifest whose only input is an existing video, the session cache  *)
(* holds transcript segments, so a following build_pipeline for the        *)
(* session does not raise "No processed data found".                       *)
(***************************************************************************)
C11_VideoIsTranscribed ==
    (ingest_pc = "done" /\ OnlyVideo)
        => /\ load_processed_data(ingest_manifest["session_id"],
                                  ingest_cache.files).transcript # <<>>
           /\ build_pc # "raised"

(***************************************************************************)
(* C12: every record written to the session cache for transcript, slides   *)
(* and exam inputs has both a "source" field and a "text" field, so every  *)
(* chunk that build_pipeline embeds has its text taken from the record.    *)
(***************************************************************************)
C12_CommonSegmentRecord ==
    /\ \A path \in DOMAIN ingest_cache.files :
           path[2] \in {"_transcript.jsonl", "_slides.jsonl", "_exam.jsonl"}
               => \A i \in DOMAIN ingest_cache.files[path] :
                      {"source", "text"} \subseteq DOMAIN ingest_cache.files[path][i]
    /\ \A i \in DOMAIN build_chunks : "text" \in DOMAIN build_chunks[i]

(***************************************************************************)
(* C13: whenever build_pipeline returns a result, the pdf_path in it is    *)
(* the path of the PDF file produced by the compile step of that run (the  *)
(* compile step succeeded for that output path).                           *)
(***************************************************************************)
C13_PdfPathIsCompiledPdf ==
    (build_result # None /\ "pdf_path" \in DOMAIN build_result[1])
        => build_result[1].pdf_path \in DOMAIN build_files

(***************************************************************************)
(* Specification of the report command: one call for a session whose out/  *)
(* directory holds what a build wrote, or nothing                          *)
(***************************************************************************)
\* the coverage data a build computes for topics of a topics file or the
\* default topic, chunks and similarities
ReportCoverages ==
    {calculate_coverage(map_chunks_to_topics(in.topics, in.similarities,
                                             DefaultThreshold),
                        in.topics, Len(in.similarities)) :
        in \in UNION {[topics : {topics},
                       similarities : UNION {SeqsOf(SeqsOf(Scores, Len(topics)), n) :
                                                n \in 0..MaxChunks}] :
                         topics \in (LoadedTopics \cup {default_topics}) \ {<<>>}}}

\* what run_all_checks can find in the notes of a build
QAResults ==
    {[formulas |-> [total_formulas |-> Len(f), invalid_formulas |-> i],
      links |-> [total_links |-> Len(l), broken_links |-> b],
      citations |-> [total_citations |-> c]] :
        f \in Prefixes(<<"$x$">>), l \in Prefixes(<<"#t">>), c \in 0..1,
        i \in Prefixes(<<"$x$">>), b \in Prefixes(<<"#t">>)}

\* out/ after a build of the session, or empty
ReportOutDirs ==
    {<<>>} \cup
    {(<<BuildSession, "_coverage.csv">> :> coverage_data)
     @@ (<<BuildSession, "_notes.md">> :>
            render_markdown_document(<<>>, BuildSession, "2024-01-01 00:00:00"))
     @@ (<<BuildSession, "_citations.json">> :> <<>>) :
        coverage_data \in ReportCoverages}

InitReport ==
    /\ IdleExcept("call")
    /\ \E out_files \in ReportOutDirs :
           call_in = [command |-> "report", session |-> BuildSession,
                      out_files |-> out_files]
    /\ call_out = None

\* cli.report
Report ==
    /\ call_out = None
    /\ call_in.command = "report"
    /\ \E qa_results \in QAResults :
       \E report_data \in {generate_report(call_in.session, call_in.out_files,
                                           qa_results)} :
           call_out' = Some(report_display(report_data))
    /\ UNCHANGED <<call_in, citeVars, fmtVars, splitVars, examVars, mapVars, covVars,
                   renderVars, buildVars, ingestVars>>

NextReport == Report

SpecReport == InitReport /\ [][NextReport]_vars

(***************************************************************************)
(* C14: after a build has written the coverage CSV of the session with at  *)
(* least one topic record, the report command displays one coverage row    *)
(* per topic and the QA summary and finishes without error: every field    *)
(* the report reads from a coverage record is a field the build writes.    *)
(***************************************************************************)
C14_ReportDisplaysCoverage ==
    (/\ call_out # None
     /\ <<call_in.session, "_coverage.csv">> \in DOMAIN call_in.out_files
     /\ call_in.out_files[<<call_in.session, "_coverage.csv">>] # <<>>)
        => /\ call_out[1].exit_code = 0
           /\ Len(call_out[1].rows)
                  = Len(call_in.out_files[<<call_in.session, "_coverage.csv">>])
           /\ call_out[1].qa # None

(***************************************************************************)
(* C15: build_pipeline raises ValueError when the session has no cached    *)
(* transcript, slides or exam records (all three lists empty or their      *)
(* files absent), and in that case no index, notes, citations or coverage  *)
(* file is written for the session.                                        *)
(***************************************************************************)
C15_EmptyCacheRaises ==
    (/\ build_pc \notin {"idle", "start"}
     /\ \A path \in DOMAIN build_env.cache : build_env.cache[path] = <<>>)
        => /\ build_pc = "raised"
           /\ build_result = Some(Raised("ValueError"))
           /\ build_files = <<>>

\* the pipeline raised for a session whose transcript file is there and empty
C15_Witness ==
    /\ build_pc = "raised"
    /\ cache_path(build_env.session_id, "_transcript.jsonl") \in DOMAIN build_env.cache
    /\ cache_path(build_env.session_id, "_slides.jsonl") \notin DOMAIN build_env.cache

(***************************************************************************)
(* SpecSearch: search_similar on an index of one vector per chunk          *)
(***************************************************************************)
\* chunks with and without a text, two of them with the same text, one that
\* already carries a rank
SearchChunks ==
    {[text |-> <<"a">>, source |-> "slides"],
     [text |-> <<"b">>, source |-> "exam"],
     [source |-> "transcript"],
     [text |-> <<"a">>, source |-> "transcript", rank |-> 9]}

SearchMetadatas == UNION {SeqsOf(SearchChunks, n) : n \in 1..MaxIndexed}

SearchDistances == {0, 1, 2}

InitSearch ==
    /\ IdleExcept("call")
    /\ \E metadata \in SearchMetadatas, top_k \in 1..MaxTopK :
       \E answer \in index_search(chunk_texts(metadata), top_k, SearchDistances) :
           call_in = [command |-> "search_similar", metadata |-> metadata,
                      top_k |-> top_k, answer |-> answer]
    /\ call_out = None

\* retrieve_context_for_topic, and search_similar through it
SearchSimilar ==
    /\ call_out = None
    /\ call_in.command = "search_similar"
    /\ call_out' = Some(retrieve_context_for_topic(call_in.answer, call_in.metadata))
    /\ UNCHANGED <<call_in, citeVars, fmtVars, splitVars, examVars, mapVars, covVars,
                   renderVars, buildVars, ingestVars>>

NextSearch == SearchSimilar

SpecSearch == InitSearch /\ [][NextSearch]_vars

(***************************************************************************)
(* C16: search_similar returns at most top_k results; the result at        *)
(* position i (from 0) has rank i + 1 and the distance the index reported  *)
(* at that position, and otherwise the keys and values of the chunk        *)
(* metadata whose id the index reported there; distances never decrease    *)
(* along the results.                                                      *)
(***************************************************************************)
C16_SearchResults ==
    call_out # None =>
        LET results == call_out[1]
            answer == call_in.answer
            metadata == call_in.metadata
        IN  /\ Len(results) <= call_in.top_k
            /\ \A p \in DOMAIN results :
                   /\ results[p].rank = p
                   /\ results[p].distance = answer.distances[p]
                   /\ answer.indices[p] >= 0 =>
                          LET chunk == metadata[answer.indices[p] + 1]
                          IN  /\ DOMAIN results[p] = DOMAIN chunk \cup {"distance", "rank"}
                              /\ \A k \in DOMAIN chunk \ {"distance", "rank"} :
                                     results[p][k] = chunk[k]
            /\ \A p, q \in DOMAIN results :
                   p < q => results[p].distance <= results[q].distance

\* two results of different chunks at different distances, the second one a
\* chunk that came with a rank of its own
C16_Witness ==
    /\ call_out # None
    /\ Len(call_out[1]) = 2
    /\ call_out[1][1].distance < call_out[1][2].distance
    /\ call_in.answer.indices[1] > call_in.answer.indices[2]
    /\ call_in.answer.indices[2] >= 0
    /\ "rank" \in DOMAIN call_in.metadata[call_in.answer.indices[2] + 1]

(***************************************************************************)
(* SpecRank: rank_by_source_diversity on lists of chunks of every source   *)
(***************************************************************************)
\* the sources of the priority lists, one that is in neither, and none
RankSources == {"exam", "slides", "transcript", "asr", "notes"}

\* the chunk at position n of a list, n kept in the chunk to tell chunks apart
RankChunksAt(n) == {[n |-> n]} \cup {[n |-> n, source |-> source] : source \in RankSources}

RankLists ==
    UNION {{q \in [1..len -> UNION {RankChunksAt(n) : n \in 1..len}] :
               \A n \in 1..len : q[n].n = n} : len \in 0..MaxRanked}

InitRank ==
    /\ IdleExcept("call")
    /\ \E chunks \in RankLists, prefer_exam \in BOOLEAN :
           call_in = [command |-> "rank_by_source_diversity", chunks |-> chunks,
                      prefer_exam |-> prefer_exam]
    /\ call_out = None

RankBySourceDiversity ==
    /\ call_out = None
    /\ call_in.command = "rank_by_source_diversity"
    /\ call_out' = Some(rank_by_source_diversity(call_in.chunks, call_in.prefer_exam))
    /\ UNCHANGED <<call_in, citeVars, fmtVars, splitVars, examVars, mapVars, covVars,
                   renderVars, buildVars, ingestVars>>

NextRank == RankBySourceDiversity

SpecRank == InitRank /\ [][NextRank]_vars

(***************************************************************************)
(* C17: in the list rank_by_source_diversity returns, the chunks of the    *)
(* priority sources (exam, slides, transcript, asr when prefer_exam, else  *)
(* slides, transcript, exam, asr) come first, in rounds: the chunks of one *)
(* source are all the input's chunks of that source in the input's order,  *)
(* the k-th chunk of a source comes before the (k+1)-th chunk of every     *)
(* source, and among the k-th chunks the priority order decides.  Every    *)
(* chunk of another source, or of none, comes after all of them.           *)
(***************************************************************************)
C17_RoundRobinByPriority ==
    call_out # None =>
        LET reranked == call_out[1]
            chunks == call_in.chunks
            order == IF call_in.prefer_exam
                     THEN [exam |-> 1, slides |-> 2, transcript |-> 3, asr |-> 4]
                     ELSE [slides |-> 1, transcript |-> 2, exam |-> 3, asr |-> 4]
            prior(c) == "source" \in DOMAIN c /\ c.source \in DOMAIN order
            round(q, p) ==
                Cardinality({o \in 1..(p - 1) :
                                 "source" \in DOMAIN q[o] /\ q[o].source = q[p].source})
        IN  /\ \A p, q \in DOMAIN reranked :
                   (prior(reranked[p]) /\ ~prior(reranked[q])) => p < q
            /\ \A p, q \in DOMAIN reranked :
                   (p < q /\ prior(reranked[q])) =>
                       \/ round(reranked, p) < round(reranked, q)
                       \/ /\ round(reranked, p) = round(reranked, q)
                          /\ order[reranked[p].source] < order[reranked[q].source]
            /\ \A source \in DOMAIN order :
                   SelectSeq(reranked, LAMBDA c : prior(c) /\ c.source = source)
                       = SelectSeq(chunks, LAMBDA c : prior(c) /\ c.source = source)

\* two rounds over slides and exam chunks with slides preferred, the input
\* starting with a chunk of no source and one of a source without priority
C17_Witness ==
    /\ call_out # None
    /\ ~call_in.prefer_exam
    /\ Len(call_in.chunks) = 4
    /\ "source" \notin DOMAIN call_in.chunks[1]
    /\ call_in.chunks[2] = [n |-> 2, source |-> "exam"]
    /\ call_in.chunks[3] = [n |-> 3, source |-> "slides"]
    /\ call_in.chunks[4] = [n |-> 4, source |-> "exam"]
    /\ call_out[1] = <<call_in.chunks[3], call_in.chunks[2], call_in.chunks[4],
                       call_in.chunks[1]>>

(***************************************************************************)
(* SpecDedup: deduplicate_chunks on lists of chunks with repeated texts    *)
(***************************************************************************)
\* the chunk at position n of a list: with a text, with the empty text, or
\* without a text
DedupChunksAt(n) ==
    {[n |-> n]} \cup {[n |-> n, text |-> text] : text \in {<<>>, <<"a">>, <<"b">>}}

DedupLists ==
    UNION {{q \in [1..len -> UNION {DedupChunksAt(n) : n \in 1..len}] :
               \A n \in 1..len : q[n].n = n} : len \in 0..MaxDedup}

InitDedup ==
    /\ IdleExcept("call")
    /\ \E chunks \in DedupLists :
           call_in = [command |-> "deduplicate_chunks", chunks |-> chunks]
    /\ call_out = None

DeduplicateChunks ==
    /\ call_out = None
    /\ call_in.command = "deduplicate_chunks"
    /\ call_out' = Some(deduplicate_chunks(call_in.chunks))
    /\ UNCHANGED <<call_in, citeVars, fmtVars, splitVars, examVars, mapVars, covVars,
                   renderVars, buildVars, ingestVars>>

NextDedup == DeduplicateChunks

SpecDedup == InitDedup /\ [][NextDedup]_vars

(***************************************************************************)
(* C18: the list deduplicate_chunks returns is the input without every     *)
(* chunk whose text (the empty string when it has none) is the text of an  *)
(* earlier chunk: it is a subsequence of the input in the input's order,   *)
(* holds a chunk of the input exactly when no earlier chunk has its text,  *)
(* so has pairwise different texts and every text of the input, and        *)
(* deduplicating it again returns it unchanged.                            *)
(***************************************************************************)
C18_FirstOfEachText ==
    call_out # None =>
        LET unique_chunks == call_out[1]
            chunks == call_in.chunks
            text(c) == IF "text" \in DOMAIN c THEN c.text ELSE <<>>
        IN  /\ \A u \in DOMAIN unique_chunks :
                   /\ unique_chunks[u].n \in DOMAIN chunks
                   /\ unique_chunks[u] = chunks[unique_chunks[u].n]
            /\ \A u, v \in DOMAIN unique_chunks :
                   u < v => /\ unique_chunks[u].n < unique_chunks[v].n
                            /\ text(unique_chunks[u]) # text(unique_chunks[v])
            /\ \A i \in DOMAIN chunks :
                   (\E u \in DOMAIN unique_chunks : unique_chunks[u].n = i)
                       <=> ~\E j \in 1..(i - 1) : text(chunks[j]) = text(chunks[i])
            /\ \A i \in DOMAIN chunks :
                   \E u \in DOMAIN unique_chunks : text(unique_chunks[u]) = text(chunks[i])
            /\ deduplicate_chunks(unique_chunks) = unique_chunks

\* a repeated text with another one in between, and a chunk without a text
\* after a chunk with the empty text
C18_Witness ==
    /\ call_out # None
    /\ Len(call_in.chunks) = 4
    /\ call_in.chunks[1] = [n |-> 1, text |-> <<"a">>]
    /\ call_in.chunks[2] = [n |-> 2, text |-> <<>>]
    /\ call_in.chunks[3] = [n |-> 3, text |-> <<"a">>]
    /\ call_in.chunks[4] = [n |-> 4]
    /\ call_out[1] = <<call_in.chunks[1], call_in.chunks[2]>>

(***************************************************************************)
(* SpecMerge: merge_short_segments on lists of short and long segments     *)
(***************************************************************************)
\* the segment at position n of a list: without a text, or with a text of 0
\* to 2 characters
MergeSegmentsAt(n) ==
    {[n |-> n]}
        \cup {[n |-> n, source |-> "test", text |-> text] :
                 text \in {<<>>, <<"A">>, <<"l", "g">>}}

MergeLists ==
    UNION {{q \in [1..len -> UNION {MergeSegmentsAt(n) : n \in 1..len}] :
               \A n \in 1..len : q[n].n = n} : len \in 0..MaxMerged}

InitMerge ==
    /\ IdleExcept("call")
    /\ \E segments \in MergeLists, min_length \in 0..MaxMinLength :
           call_in = [command |-> "merge_short_segments", segments |-> segments,
                      min_length |-> min_length]
    /\ call_out = None

MergeShortSegments ==
    /\ call_out = None
    /\ call_in.command = "merge_short_segments"
    /\ call_out' = Some(merge_short_segments(call_in.segments, call_in.min_length))
    /\ UNCHANGED <<call_in, citeVars, fmtVars, splitVars, examVars, mapVars, covVars,
                   renderVars, buildVars, ingestVars>>

NextMerge == MergeShortSegments

SpecMerge == InitMerge /\ [][NextMerge]_vars

(***************************************************************************)
(* C19: merge_short_segments returns, in the input's order, one segment    *)
(* for every segment whose text has min_length characters or more, that    *)
(* segment itself, and one for every maximal run of consecutive segments   *)
(* with a shorter text: the run's first segment with the run's texts       *)
(* joined by single spaces as its text and is_merged = True.  The list is  *)
(* shorter than the input whenever two short segments follow each other.   *)
(***************************************************************************)
C19_ShortRunsMerged ==
    call_out # None =>
        LET merged == call_out[1]
            segments == call_in.segments
            text(i) == IF "text" \in DOMAIN segments[i] THEN segments[i].text ELSE <<>>
            short(i) == Len(text(i)) < call_in.min_length
            long == {i \in DOMAIN segments : ~short(i)}
            starts == {i \in DOMAIN segments : short(i) /\ (i = 1 \/ ~short(i - 1))}
            last(i) == CHOOSE e \in i..Len(segments) :
                           /\ \A x \in i..e : short(x)
                           /\ e = Len(segments) \/ ~short(e + 1)
            place(i) == Cardinality({x \in long \cup starts : x <= i})
        IN  /\ Len(merged) = Cardinality(long) + Cardinality(starts)
            /\ \A i \in long : merged[place(i)] = segments[i]
            /\ \A i \in starts :
                   LET m == merged[place(i)]
                   IN  /\ DOMAIN m = DOMAIN segments[i] \cup {"text", "is_merged"}
                       /\ m.is_merged = TRUE
                       /\ m.text = str_join([x \in 1..(last(i) - i + 1) |-> text(i + x - 1)])
                       /\ \A k \in DOMAIN segments[i] \ {"text"} : m[k] = segments[i][k]
            /\ (\E i \in 1..(Len(segments) - 1) : short(i) /\ short(i + 1))
                   => Len(merged) < Len(segments)

\* a run of a short segment and one without a text, a long segment, and a
\* run of one short segment
C19_Witness ==
    /\ call_out # None
    /\ call_in.min_length = 2
    /\ Len(call_in.segments) = 4
    /\ call_in.segments[1] = [n |-> 1, source |-> "test", text |-> <<"A">>]
    /\ call_in.segments[2] = [n |-> 2]
    /\ call_in.segments[3] = [n |-> 3, source |-> "test", text |-> <<"l", "g">>]
    /\ call_in.segments[4] = [n |-> 4, source |-> "test", text |-> <<"A">>]
    /\ Len(call_out[1]) = 3
    /\ call_out[1][1].text = <<"A", " ">>
    /\ call_out[1][2] = call_in.segments[3]

(***************************************************************************)
(* C20: a call of split_into_chunks leaves its argument as it was, and the *)
(* list it returns holds, in the order of the segments, every segment with *)
(* a text of at most max_chunk_size characters as it is, once, and for a   *)
(* segment with a longer text only chunks that have the segment's fields   *)
(* with their values, but for text, and is_split = True.                   *)
(***************************************************************************)
C20_SplitFrame ==
    [][(split_out = None /\ split_out' # None) =>
          /\ split_in' = split_in
          /\ \E origin \in [DOMAIN split_out'[1] -> DOMAIN split_in.segments] :
                 /\ \A o, p \in DOMAIN origin : o < p => origin[o] <= origin[p]
                 /\ \A i \in DOMAIN split_in.segments :
                        LET segment == split_in.segments[i]
                            long == /\ "text" \in DOMAIN segment
                                    /\ Len(segment.text) > split_in.max_chunk_size
                            chunks == {o \in DOMAIN origin : origin[o] = i}
                        IN  IF long
                            THEN \A o \in chunks :
                                     LET chunk == split_out'[1][o]
                                     IN  /\ DOMAIN chunk = DOMAIN segment \cup {"is_split"}
                                         /\ chunk.is_split = TRUE
                                         /\ \A k \in DOMAIN segment \ {"text"} :
                                                chunk[k] = segment[k]
                            ELSE /\ Cardinality(chunks) = 1
                                 /\ \A o \in chunks : split_out'[1][o] = segment
      ]_vars

\* a segment without a text and a long one split in two, both chunks with
\* the segment's source
C20_Witness ==
    /\ split_out # None
    /\ Len(split_in.segments) = 2
    /\ "text" \notin DOMAIN split_in.segments[1]
    /\ Len(split_out[1]) = 3
    /\ split_out[1][1] = split_in.segments[1]
    /\ split_out[1][2].is_split /\ split_out[1][3].is_split
    /\ split_out[1][3].source = split_in.segments[2].source

(***************************************************************************)
(* C21: when ingest_pipeline has returned, processed_files has the key     *)
(* audio, transcript, slides, exam exactly for the inputs video,           *)
(* transcript, slides, exam that the manifest gives non-empty and whose    *)
(* file exists; the inputs that were warned about are those given whose    *)
(* file does not exist, and such an input never makes the run raise; the   *)
(* session manifest is in the cache only once every input was processed,   *)
(* and records the processed files.                                        *)
(***************************************************************************)
C21_ProcessedFilesMatchInputs ==
    LET valid == /\ {"session_id", "inputs"} \subseteq DOMAIN ingest_manifest
                 /\ ingest_manifest.inputs.type = "dict"
        inputs == ingest_manifest.inputs.items
        key == [video |-> "audio", transcript |-> "transcript", slides |-> "slides",
                exam |-> "exam"]
        given(kind) == kind \in DOMAIN inputs /\ inputs[kind] # [stem |-> "", suffix |-> ""]
        exists(kind) == inputs[kind] \in DOMAIN InputFiles
        manifest_path == <<ingest_manifest.session_id, "_manifest.json">>
    IN  valid =>
            /\ ingest_pc = "done" =>
                   /\ \A kind \in DOMAIN key :
                          key[kind] \in DOMAIN ingest_result.processed_files
                              <=> (given(kind) /\ exists(kind))
                   /\ DOMAIN ingest_result.processed_files \subseteq Range(key)
                   /\ ingest_log = {kind \in DOMAIN key : given(kind) /\ ~exists(kind)}
                   /\ manifest_path \in DOMAIN ingest_cache.files
                   /\ ingest_cache.files[manifest_path].processed_files
                          = ingest_result.processed_files
            /\ ingest_pc = "raised" =>
                   \E kind \in DOMAIN key : given(kind) /\ exists(kind)
            /\ manifest_path \in DOMAIN ingest_cache.files => ingest_pc = "done"

\* a run that returned for a manifest with a video that does not exist, a
\* transcript that does, the empty string for the slides and no exam
C21_Witness ==
    /\ ingest_pc = "done"
    /\ DOMAIN ingest_manifest.inputs.items = {"video", "transcript", "slides"}
    /\ ingest_manifest.inputs.items["video"] = MissingPath
    /\ ingest_manifest.inputs.items["transcript"] = Path("talk", ".vtt")
    /\ ingest_manifest.inputs.items["slides"] = Path("", "")
    /\ DOMAIN ingest_result.processed_files = {"transcript"}
    /\ ingest_log = {"video"}

(***************************************************************************)
(* C22: validate_manifest returns True when the manifest has the keys      *)
(* session_id and inputs and inputs is a dict, and raises ValueError       *)
(* otherwise; ingest_pipeline raises that error with no cache directory    *)
(* made and no file written, and makes the directory only for a manifest   *)
(* that is valid.                                                          *)
(***************************************************************************)
C22_ManifestValidatedFirst ==
    LET valid == /\ "session_id" \in DOMAIN ingest_manifest
                 /\ "inputs" \in DOMAIN ingest_manifest
                 /\ ingest_manifest.inputs.type = "dict"
    IN  /\ validate_manifest(ingest_manifest)
               = IF valid THEN [returned |-> TRUE] ELSE [raised |-> "ValueError"]
        /\ ingest_pc = "start" => (~ingest_cache.exists /\ ingest_cache.files = <<>>)
        /\ (ingest_pc # "start" /\ ~valid) =>
               /\ ingest_pc = "raised"
               /\ ingest_result = [raised |-> "ValueError"]
               /\ ~ingest_cache.exists
               /\ ingest_cache.files = <<>>
        /\ (ingest_pc # "start" /\ valid) => ingest_cache.exists

\* the run raised for a manifest whose inputs are a list
C22_Witness ==
    /\ ingest_pc = "raised"
    /\ {"session_id", "inputs"} \subseteq DOMAIN ingest_manifest
    /\ ingest_manifest.inputs.type = "list"
    /\ ~ingest_cache.exists

(***************************************************************************)
(* SpecFormulas: extract_latex_formulas on texts made of plain text,       *)
(* inline formulas and display formulas                                    *)
(***************************************************************************)
FormulaPieces ==
    {[kind |-> "plain", body |-> <<" ">>], [kind |-> "plain", body |-> <<"a", " ">>],
     [kind |-> "inline", body |-> <<"E">>], [kind |-> "inline", body |-> <<"m", "c">>],
     [kind |-> "display", body |-> <<"x", " ", "d", "x">>]}

\* what a piece is in the text
piece_text(piece) ==
    IF piece.kind = "inline" THEN <<"$">> \o piece.body \o <<"$">>
    ELSE IF piece.kind = "display" THEN <<"$", "$">> \o piece.body \o <<"$", "$">>
    ELSE piece.body

InitFormulas ==
    /\ IdleExcept("call")
    /\ \E pieces \in SeqsUpTo(FormulaPieces, MaxPieces) :
           call_in = [command |-> "extract_latex_formulas", pieces |-> pieces,
                      text |-> flatten([p \in DOMAIN pieces |-> piece_text(pieces[p])])]
    /\ call_out = None

ExtractLatexFormulas ==
    /\ call_out = None
    /\ call_in.command = "extract_latex_formulas"
    /\ call_out' = Some(extract_latex_formulas(call_in.text))
    /\ UNCHANGED <<call_in, citeVars, fmtVars, splitVars, examVars, mapVars, covVars,
                   renderVars, buildVars, ingestVars>>

NextFormulas == ExtractLatexFormulas

SpecFormulas == InitFormulas /\ [][NextFormulas]_vars

(***************************************************************************)
(* C23: for a text with m inline formulas and n display formulas the list  *)
(* extract_latex_formulas returns has m + n entries, each formula of the   *)
(* text being in it once.                                                  *)
(***************************************************************************)
C23_EachFormulaOnce ==
    call_out # None =>
        LET formulas == SelectSeq(call_in.pieces, LAMBDA piece : piece.kind # "plain")
        IN  /\ Len(call_out[1]) = Len(formulas)
            /\ \A body \in {formulas[f].body : f \in DOMAIN formulas} :
                   Cardinality({o \in DOMAIN call_out[1] : call_out[1][o] = body})
                       = Cardinality({f \in DOMAIN formulas : formulas[f].body = body})

(***************************************************************************)
(* SpecStats: calculate_overall_coverage on lists of coverage records      *)
(***************************************************************************)
\* coverage percentages of 0, 1, 2 and 3 chunks of 3, and of 1 chunk of 2
StatsPercentages == {coverage_pct(c, 3) : c \in 0..3} \cup {coverage_pct(1, 2)}

StatsRecords ==
    {[name |-> "Topic", coverage_percentage |-> pct, chunk_count |-> 1] :
        pct \in StatsPercentages}

InitStats ==
    /\ IdleExcept("call")
    /\ \E coverage_data \in SeqsUpTo(StatsRecords, MaxStats) :
           call_in = [command |-> "calculate_overall_coverage",
                      coverage_data |-> coverage_data]
    /\ call_out = None

CalculateOverallCoverage ==
    /\ call_out = None
    /\ call_in.command = "calculate_overall_coverage"
    /\ call_out' = Some(calculate_overall_coverage(call_in.coverage_data))
    /\ UNCHANGED <<call_in, citeVars, fmtVars, splitVars, examVars, mapVars, covVars,
                   renderVars, buildVars, ingestVars>>

NextStats == CalculateOverallCoverage

SpecStats == InitStats /\ [][NextStats]_vars

(***************************************************************************)
(* C24: calculate_overall_coverage returns 0.0 four times for no record,   *)
(* and otherwise the mean, the median, the least and the greatest of the   *)
(* coverage percentages: the mean times the number of values is their sum, *)
(* the median is the middle value in order for an odd number of values and *)
(* the mean of the two middle values for an even number, and both lie      *)
(* between min and max.                                                    *)
(***************************************************************************)
C24_OverallCoverageStatistics ==
    call_out # None =>
        LET stats == call_out[1]
            data == call_in.coverage_data
            n == Len(data)
            value(i) == data[i].coverage_percentage
            less(x, y) == x.n * y.d < y.n * x.d
            \* the k-th value in ascending order
            kth(k) == CHOOSE v \in {value(i) : i \in 1..n} :
                          /\ Cardinality({i \in 1..n : less(value(i), v)}) < k
                          /\ k <= Cardinality({i \in 1..n : ~less(v, value(i))})
            zero == [n |-> 0, d |-> 1]
        IN  IF n = 0
            THEN stats = [mean |-> zero, median |-> zero, min |-> zero, max |-> zero]
            ELSE /\ stats.min = kth(1)
                 /\ stats.max = kth(n)
                 /\ ~less(stats.mean, stats.min) /\ ~less(stats.max, stats.mean)
                 /\ ~less(stats.median, stats.min) /\ ~less(stats.max, stats.median)
                 /\ IF n % 2 = 1
                    THEN stats.median = kth((n + 1) \div 2)
                    ELSE LET lo == kth(n \div 2)
                             hi == kth(n \div 2 + 1)
                         IN  stats.median.n * 2 * lo.d * hi.d
                                 = (lo.n * hi.d + hi.n * lo.d) * stats.median.d

(***************************************************************************)
(* SpecTimecode: seconds_to_timecode, timecode_to_seconds on its result,   *)
(* and timecode_to_seconds on timecodes of two parts                       *)
(***************************************************************************)
\* whole numbers of seconds at the turn of a minute, an hour, a day and a
\* hundred hours
TurningSeconds == {59, 60, 61, 125, 3599, 3600, 3661, 86399, 86400, 359999, 360000}

\* numbers of ticks: whole and fractional numbers of seconds
TimecodeSeconds ==
    0..MaxTicks \cup {n * TicksPerSecond + f : n \in TurningSeconds, f \in {0, 1}}

InitTimecode ==
    /\ IdleExcept("call")
    /\ \/ \E seconds \in TimecodeSeconds :
              call_in = [command |-> "seconds_to_timecode", seconds |-> seconds]
       \/ \E minutes \in {0, 2, 59, 75}, secs \in {0, 5, 59} :
              call_in = [command |-> "timecode_to_seconds",
                         timecode |-> pad2_chars(minutes) \o <<":">> \o pad2_chars(secs),
                         minutes |-> minutes, secs |-> secs]
    /\ call_out = None

SecondsToTimecode ==
    /\ call_out = None
    /\ call_in.command = "seconds_to_timecode"
    /\ call_out' = Some(timecode_chars(call_in.seconds))
    /\ UNCHANGED <<call_in, citeVars, fmtVars, splitVars, examVars, mapVars, covVars,
                   renderVars, buildVars, ingestVars>>

\* the timecode that was returned is handed to timecode_to_seconds
TimecodeReturned ==
    /\ call_out # None
    /\ call_in.command = "seconds_to_timecode"
    /\ call_in' = [command |-> "timecode_to_seconds", timecode |-> call_out[1],
                   of |-> call_in.seconds]
    /\ call_out' = None
    /\ UNCHANGED <<citeVars, fmtVars, splitVars, examVars, mapVars, covVars,
                   renderVars, buildVars, ingestVars>>

TimecodeToSeconds ==
    /\ call_out = None
    /\ call_in.command = "timecode_to_seconds"
    /\ call_out' = Some(timecode_to_seconds(call_in.timecode))
    /\ UNCHANGED <<call_in, citeVars, fmtVars, splitVars, examVars, mapVars, covVars,
                   renderVars, buildVars, ingestVars>>

NextTimecode == SecondsToTimecode \/ TimecodeReturned \/ TimecodeToSeconds

SpecTimecode == InitTimecode /\ [][NextTimecode]_vars

C26_ResultsAreMatches ==
    (call_out # None /\ call_in.command = "search_similar") =>
        LET results == call_out[1]
            indices == call_in.answer.indices
            matched == {p \in DOMAIN indices : indices[p] >= 0}
        IN  /\ Len(results) = Cardinality(matched)
            /\ Len(results) <= Len(call_in.metadata)

(***************************************************************************)
(* render/templater.py: render_markdown_document, character by character,  *)
(* as the checks of qa/checks.py read the document.  The values of a       *)
(* section are sequences of characters here.                               *)
(***************************************************************************)
\* the literals of the f-strings
TextDefinition ==
    <<"#", "#", "#", " ", "D", "e", "f", "i", "n", "i", "t", "i", "o", "n">>
TextSources ==
    <<"*", "S", "o", "u", "r", "c", "e", "s", ":", " ">>
TextKey ==
    <<"#", "#", "#", " ", "K", "e", "y", " ", "F", "o", "r", "m", "u", "l", "a", "s">>
TextDerivation ==
    <<"#", "#", "#", " ", "D", "e", "r", "i", "v", "a", "t", "i", "o", "n">>
TextExamples ==
    <<"#", "#", "#", " ", "W", "o", "r", "k", "e", "d", " ", "E", "x", "a", "m", "p", "l", "e", "s">>
TextMistakes ==
    <<"#", "#", "#", " ", "C", "o", "m", "m", "o", "n", " ", "M", "i", "s", "t", "a", "k", "e", "s">>
TextRevision ==
    <<"#", "#", "#", " ", "Q", "u", "i", "c", "k", " ", "R", "e", "v", "i", "s", "i", "o", "n">>
TextTitle ==
    <<"#", " ", "E", "x", "a", "m", " ", "P", "r", "e", "p", "a", "r", "a", "t", "i", "o", "n", " ", "N", "o", "t", "e", "s", " ", "-", " ">>
TextGenerated ==
    <<"*", "*", "G", "e", "n", "e", "r", "a", "t", "e", "d", ":", "*", "*", " ">>
TextToc ==
    <<"#", "#", " ", "T", "a", "b", "l", "e", " ", "o", "f", " ", "C", "o", "n", "t", "e", "n", "t", "s">>

\* "if section.get(key):" followed by the title and the text of the key
subsection_text(section, key, title) ==
    IF Get(section, key, <<>>) # <<>>
    THEN <<title \o <<"\n">>, section[key] \o <<"\n">> >>
    ELSE <<>>

\* the entry of the table of contents for section i
toc_text(i, section) ==
    LET topic == Get(section, "topic", default_topic(i))
    IN  << int_to_chars(i) \o <<".", " ", "[">> \o topic \o <<"]", "(", "#">>
               \o anchor_of(topic) \o <<")">> >>

\* the lines of section i
section_text(i, section) ==
    LET topic == Get(section, "topic", default_topic(i))
        citations_str == Get(section, "citations", <<>>)
    IN  << <<"#", "#", " ">> \o int_to_chars(i) \o <<".", " ">> \o topic \o <<"\n">> >>
        \o (IF Get(section, "definition", <<>>) # <<>>
            THEN <<TextDefinition \o <<"\n">>, section["definition"] \o <<"\n">> >>
                 \o (IF citations_str # <<>>
                     THEN << TextSources \o citations_str \o <<"*", "\n">> >>
                     ELSE <<>>)
            ELSE <<>>)
        \o subsection_text(section, "key_formulas", TextKey)
        \o subsection_text(section, "derivation", TextDerivation)
        \o subsection_text(section, "examples", TextExamples)
        \o subsection_text(section, "mistakes", TextMistakes)
        \o subsection_text(section, "revision", TextRevision)
        \o << <<"\n", "-", "-", "-", "\n">> >>

\* render_markdown_document: "\n".join(lines)
render_markdown_text(sections, session_id, now) ==
    join_lines(
        << TextTitle \o session_id,
           <<>>,
           TextGenerated \o now,
           <<>>,
           <<"-", "-", "-">>,
           <<>>,
           TextToc \o <<"\n">> >>
        \o flatten([i \in DOMAIN sections |-> toc_text(i, sections[i])])
        \o << <<"\n", "-", "-", "-", "\n">> >>
        \o flatten([i \in DOMAIN sections |-> section_text(i, sections[i])]))

(***************************************************************************)
(* qa/checks.py: check_internal_links.  In the link pattern [^\]]+ ends at *)
(* the first "]" and [^)]+ at the first ")"; the heading pattern is tried  *)
(* on every line of the content (re.MULTILINE), the lines here being those *)
(* of a rendered document, where marks and blanks are followed by text on  *)
(* the same line.                                                          *)
(***************************************************************************)
\* the position of the first c at or after i, Len(text) + 1 when none
next_char(text, c, i) ==
    LET at == {j \in i..Len(text) : text[j] = c}
    IN  IF at = {} THEN Len(text) + 1 ELSE CHOOSE j \in at : \A k \in at : j <= k

\* re.findall(r'\[([^\]]+)\]\(#([^)]+)\)', content), from position i
RECURSIVE findall_links(_, _)
findall_links(content, i) ==
    IF i > Len(content) THEN <<>>
    ELSE IF content[i] # "[" THEN findall_links(content, next_char(content, "[", i))
    ELSE LET close == next_char(content, "]", i + 1)
             end == next_char(content, ")", close + 3)
         IN  IF /\ close > i + 1 /\ close + 2 <= Len(content)
                /\ content[close + 1] = "(" /\ content[close + 2] = "#"
                /\ end > close + 3 /\ end <= Len(content)
             THEN << <<SubSeq(content, i + 1, close - 1),
                       SubSeq(content, close + 3, end - 1)>> >>
                      \o findall_links(content, end + 1)
             ELSE findall_links(content, i + 1)

\* the position of the first character from i on that is not in set
RECURSIVE skip_chars(_, _, _)
skip_chars(line, set, i) ==
    IF i <= Len(line) /\ line[i] \in set THEN skip_chars(line, set, i + 1) ELSE i

\* the match of r'^#+\s+(.+)$' on one line: the heading, None when no match
heading_of(line) ==
    LET blanks == skip_chars(line, {"#"}, 1)
        text == skip_chars(line, Whitespace, blanks)
    IN  IF blanks > 1 /\ text > blanks /\ text <= Len(line)
        THEN Some(SubSeq(line, text, Len(line)))
        ELSE None

\* re.findall(r'^#+\s+(.+)$', content, re.MULTILINE)
findall_headings(content) ==
    LET ends == {e \in DOMAIN content : content[e] = "\n"} \cup {Len(content) + 1}
        end(l) == CHOOSE e \in ends : Cardinality({d \in ends : d <= e}) = l
        lines == [l \in 1..Cardinality(ends) |->
                     SubSeq(content, IF l = 1 THEN 1 ELSE end(l - 1) + 1, end(l) - 1)]
    IN  flatten([l \in DOMAIN lines |-> heading_of(lines[l])])

\* check_internal_links(content)
check_internal_links(content) ==
    LET links == findall_links(content, 1)
        headings == findall_headings(content)
        anchors == {anchor_of(headings[h]) : h \in DOMAIN headings}
        broken_links == SelectSeq(links, LAMBDA link : link[2] \notin anchors)
    IN  [total_links |-> Len(links), broken_links |-> broken_links,
         passed |-> Len(broken_links) = 0]

(***************************************************************************)
(* SpecLinks: a document is rendered and handed to check_internal_links    *)
(***************************************************************************)
LinkedSections ==
    {[topic |-> <<"T", " ", "1">>, definition |-> <<"D">>, citations |-> <<"[", "s", "]">>],
     [topic |-> <<"u">>, definition |-> <<>>, revision |-> <<"R">>, citations |-> <<>>],
     [definition |-> <<"D">>],
     [topic |-> <<"T", " ", "1">>, key_formulas |-> <<"$", "x", "$">>,
      examples |-> <<"E">>, mistakes |-> <<"M">>, derivation |-> <<"V">>]}

LinkedSessions == {<<"s">>, <<"t", "1">>, <<"T", " ", "1">>, <<"u">>, <<>>}

InitLinks ==
    /\ IdleExcept("call")
    /\ \E sections \in SeqsUpTo(LinkedSections, MaxLinked), session_id \in LinkedSessions :
           call_in = [command |-> "render_markdown_document", sections |-> sections,
                      session_id |-> session_id, now |-> <<"2", "0", "2", "4">>]
    /\ call_out = None

RenderNotes ==
    /\ call_out = None
    /\ call_in.command = "render_markdown_document"
    /\ call_out' = Some(render_markdown_text(call_in.sections, call_in.session_id,
                                             call_in.now))
    /\ UNCHANGED <<call_in, citeVars, fmtVars, splitVars, examVars, mapVars, covVars,
                   renderVars, buildVars, ingestVars>>

\* run_all_checks on the notes: the document goes to check_internal_links
NotesChecked ==
    /\ call_out # None
    /\ call_in.command = "render_markdown_document"
    /\ call_in' = [command |-> "check_internal_links", content |-> call_out[1],
                   sections |-> call_in.sections]
    /\ call_out' = None
    /\ UNCHANGED <<citeVars, fmtVars, splitVars, examVars, mapVars, covVars,
                   renderVars, buildVars, ingestVars>>

CheckInternalLinks ==
    /\ call_out = None
    /\ call_in.command = "check_internal_links"
    /\ call_out' = Some(check_internal_links(call_in.content))
    /\ UNCHANGED <<call_in, citeVars, fmtVars, splitVars, examVars, mapVars, covVars,
                   renderVars, buildVars, ingestVars>>

NextLinks == RenderNotes \/ NotesChecked \/ CheckInternalLinks

SpecLinks == InitLinks /\ [][NextLinks]_vars

(***************************************************************************)
(* C27: check_internal_links finds, in a document that                     *)
(* render_markdown_document made, one link for every section, the entry of *)
(* the table of contents, and no broken link.                              *)
(***************************************************************************)
C27_NotesLinksResolve ==
    (call_in.command = "check_internal_links" /\ call_out # None) =>
        /\ call_out[1].total_links = Len(call_in.sections)
        /\ call_out[1].broken_links = <<>>
        /\ call_out[1].passed

(***************************************************************************)
(* C28: in a section of build_pipeline exactly the subsections whose LLM   *)
(* call was logged as failed are empty, the others hold the generated      *)
(* text; every topic gets its section whatever calls failed; and whatever  *)
(* became of the PDF compilation, the run ends with the notes, citations   *)
(* and coverage files written and its result returned.                     *)
(***************************************************************************)
C28_FailuresAreIsolated ==
    /\ build_pc \in {"loop", "done"} =>
           /\ Len(build_sections) = build_idx
           /\ \A i \in DOMAIN build_sections :
                  \A call \in {"definition", "derivation", "mistakes", "revision"} :
                      build_sections[i][call] =
                          IF call \in build_log[i] THEN "" ELSE LLMText[call]
    /\ build_pc = "done" =>
           /\ Len(build_sections) = Len(build_topics)
           /\ {"notes", "citations", "coverage"} \subseteq DOMAIN build_files
           /\ build_result # None
           /\ "raised" \notin DOMAIN build_result[1]
           /\ build_result[1].topics_processed = Len(build_topics)

\* a run of two topics that ended without a PDF: in the first section only
\* the derivation failed, in the second everything but the revision
C28_Witness ==
    /\ build_pc = "done"
    /\ "pdf" \notin DOMAIN build_files
    /\ Len(build_sections) = 2
    /\ build_log[1] = {"derivation"}
    /\ build_sections[1].definition = "Def" /\ build_sections[1].derivation = ""
    /\ build_sections[1].mistakes = "Mis" /\ build_sections[1].revision = "Rev"
    /\ build_log[2] = {"definition", "derivation", "mistakes"}
    /\ build_sections[2].revision = "Rev"
    /\ "notes" \in DOMAIN build_files

(***************************************************************************)
(* C29: the list rank_by_source_diversity returns is a permutation of the  *)
(* list it was given: it is as long, and every chunk of the input,         *)
(* whatever its source and with or without one, is in it exactly once.     *)
(***************************************************************************)
C29_RankIsPermutation ==
    (call_out # None /\ call_in.command = "rank_by_source_diversity") =>
        /\ Len(call_out[1]) = Len(call_in.chunks)
        /\ \A i \in DOMAIN call_in.chunks :
               Cardinality({o \in DOMAIN call_out[1] : call_out[1][o] = call_in.chunks[i]})
                   = 1

\* chunks of a source without priority and of no source among chunks of
\* priority sources, returned in another order
C29_Witness ==
    /\ call_out # None
    /\ call_in.command = "rank_by_source_diversity"
    /\ Len(call_in.chunks) = 4
    /\ call_in.chunks[1] = [n |-> 1, source |-> "notes"]
    /\ call_in.chunks[2] = [n |-> 2]
    /\ call_in.chunks[3] = [n |-> 3, source |-> "asr"]
    /\ call_in.chunks[4] = [n |-> 4, source |-> "notes"]
    /\ call_out[1] # call_in.chunks
    /\ Len(call_out[1]) = 4

====
